---------------------------- MODULE Spec2Model ----------------------------
(***************************************************************************)
(* A model of the spatial-indexing and collision core of                   *)
(* jakke-graphics-ts: the BVH tree (models/bvhTree), the separating-axis   *)
(* box tests (utils/collisionUtils.ts) and the line evaluation primitives  *)
(* (utils/lineEvaluationUtils.ts, utils/vectorUtils.ts).                   *)
(*                                                                         *)
(* Numbers.  The program computes in IEEE doubles.  The model computes in  *)
(* exact rationals [n, d] (d > 0, lowest terms): every +, -, *, / of the   *)
(* source is the same operation on rationals, Math.sqrt is the exact root  *)
(* and is defined only where the root is rational (the inputs the          *)
(* specifications draw are chosen so), and the comparisons against the     *)
(* 1e-6 tolerances are comparisons against the rational 1/1000000.         *)
(* Rounding errors of the doubles (about 1e-16 relative) are therefore     *)
(* not part of the model; the tolerances are.                              *)
(***************************************************************************)
EXTENDS Integers, Sequences, FiniteSets, TLC

-----------------------------------------------------------------------------
(* Rational arithmetic: the model of the source's `number`.                *)

RECURSIVE GCD(_, _)
GCD(a, b) == IF b = 0 THEN a ELSE GCD(b, a % b)

IAbs(i) == IF i < 0 THEN -i ELSE i

\* The rational num/den in lowest terms with a positive denominator.
Frac(num, den) ==
    LET g == GCD(IAbs(num), IAbs(den))
        s == IF den < 0 THEN -1 ELSE 1
    IN  [n |-> s * (num \div g), d |-> s * (den \div g)]

\* An integer as a number.
R(i) == [n |-> i, d |-> 1]

RNeg(a) == [n |-> -a.n, d |-> a.d]

RAdd(a, b) ==
    LET g == GCD(a.d, b.d)
    IN  Frac(a.n * (b.d \div g) + b.n * (a.d \div g), (a.d \div g) * b.d)

RSub(a, b) == RAdd(a, RNeg(b))

RMul(a, b) ==
    LET g1 == GCD(IAbs(a.n), b.d)
        g2 == GCD(IAbs(b.n), a.d)
    IN  IF a.n = 0 \/ b.n = 0 THEN R(0)
        ELSE [n |-> (a.n \div g1) * (b.n \div g2),
              d |-> (a.d \div g2) * (b.d \div g1)]

\* a / b.  A division by an exact zero (Infinity or NaN in the source)
\* yields a value that is no number and stops the evaluation when used as
\* one: the model takes no path on which the source computes with it.
RDiv(a, b) ==
    IF b.n = 0 THEN [divisionByZero |-> a]
    ELSE RMul(a, IF b.n < 0 THEN [n |-> -b.d, d |-> -b.n]
                 ELSE [n |-> b.d, d |-> b.n])

RSign(a) == IF a.n > 0 THEN 1 ELSE IF a.n < 0 THEN -1 ELSE 0

\* Infinity and -Infinity: the corners of a bounding box no vertex was
\* added to, and the result of arithmetic beyond the largest number.
Infinity == [inf |-> 1]
NegInfinity == [inf |-> -1]

\* A finite number whose square is beyond the largest number (1.8e308),
\* such as 1e200: its square is Infinity, and it divided by Infinity is 0.
Huge == [huge |-> 1]

\* The sign of a - b, from the integer parts and, where these are equal,
\* from the fractional parts.
RCompare(a, b) ==
    LET fa == a.n \div a.d
        fb == b.n \div b.d
        g == GCD(a.d, b.d)
    IN  IF fa # fb THEN (IF fa < fb THEN -1 ELSE 1)
        ELSE LET diff == (a.n % a.d) * (b.d \div g) - (b.n % b.d) * (a.d \div g)
             IN  IF diff < 0 THEN -1 ELSE IF diff > 0 THEN 1 ELSE 0

RLt(a, b) == RCompare(a, b) < 0
RLe(a, b) == RCompare(a, b) <= 0
RGt(a, b) == RLt(b, a)
RGe(a, b) == RLe(b, a)

\* size <= bound, for the size of a vector, which may be Infinity.
SizeLe(size, bound) == IF size = Infinity THEN FALSE ELSE RLe(size, bound)

RAbs(a) == [n |-> IAbs(a.n), d |-> a.d]
RMin(a, b) == IF RLt(b, a) THEN b ELSE a
RMax(a, b) == IF RLt(a, b) THEN b ELSE a

\* floor(a) as an integer.
RFloor(a) == a.n \div a.d

\* Math.round(a): the nearest integer, a half rounding up.
RRound(a) == RFloor(RAdd(a, [n |-> 1, d |-> 2]))

RECURSIVE ISqrtFrom(_, _)
ISqrtFrom(i, k) == IF (k + 1) * (k + 1) > i THEN k ELSE ISqrtFrom(i, k + 1)

\* The integer part of the square root of i >= 0.
ISqrt(i) == ISqrtFrom(i, 0)

\* Math.sqrt(a) where the root is rational; a value that is no number (and
\* stops the evaluation when used as one) where it is not.
RSqrt(a) ==
    LET sn == ISqrt(a.n)
        sd == ISqrt(a.d)
    IN  IF sn * sn = a.n /\ sd * sd = a.d
        THEN [n |-> sn, d |-> sd]
        ELSE [irrational |-> a]

-----------------------------------------------------------------------------
(* A `const x = ...` of the source whose value is used more than once is   *)
(* written Bound([x \in {...} |-> body]): the body at the value of x,       *)
(* which is computed once.                                                 *)

Bound(f) == CHOOSE r \in UNION {{g[v] : v \in DOMAIN g} : g \in {f}} : TRUE

-----------------------------------------------------------------------------
(* Tolerances and the hash precision of the source.                        *)

\* 1 / 1e-6: the denominator of every tolerance below.
TOLERANCE_DENOMINATOR == 1000000

\* utils/collisionUtils.ts: ZERO_VECTOR_TOLERANCE, UNIT_VECTOR_TOLERANCE,
\* COLLISION_TOLERANCE, all 1e-6.
ZERO_VECTOR_TOLERANCE == [n |-> 1, d |-> TOLERANCE_DENOMINATOR]
UNIT_VECTOR_TOLERANCE == [n |-> 1, d |-> TOLERANCE_DENOMINATOR]
COLLISION_TOLERANCE == [n |-> 1, d |-> TOLERANCE_DENOMINATOR]

\* utils/lineEvaluationUtils.ts: TOLERANCE_LINE_EVALUATION = 1e-6.
TOLERANCE_LINE_EVALUATION == [n |-> 1, d |-> TOLERANCE_DENOMINATOR]

\* utils/vectorUtils.ts: TOLERANCE_PARALLEL = 1e-6.
TOLERANCE_PARALLEL == [n |-> 1, d |-> TOLERANCE_DENOMINATOR]

\* models/bvhTree: BVHVertex.PRECISION = 1e6.
PRECISION == 1000000

-----------------------------------------------------------------------------
(* VectorUtils (utils/vectorUtils.ts).  A Vertex3d is [x, y, z].  The BVH  *)
(* module's private BVHVertex has the same add, subtract, dot, cross and   *)
(* multiply (= scale); they are modelled by the operators below as well.   *)

\* The Vertex3d with integer coordinates.
V3(x, y, z) == [x |-> R(x), y |-> R(y), z |-> R(z)]

add(v0, v1) ==
    [x |-> RAdd(v0.x, v1.x), y |-> RAdd(v0.y, v1.y), z |-> RAdd(v0.z, v1.z)]

subtract(v0, v1) ==
    [x |-> RSub(v0.x, v1.x), y |-> RSub(v0.y, v1.y), z |-> RSub(v0.z, v1.z)]

scale(v, scalar) ==
    [x |-> RMul(v.x, scalar), y |-> RMul(v.y, scalar), z |-> RMul(v.z, scalar)]

dot(v0, v1) ==
    RAdd(RAdd(RMul(v0.x, v1.x), RMul(v0.y, v1.y)), RMul(v0.z, v1.z))

cross(v0, v1) ==
    [x |-> RSub(RMul(v0.y, v1.z), RMul(v0.z, v1.y)),
     y |-> RSub(RMul(v0.z, v1.x), RMul(v0.x, v1.z)),
     z |-> RSub(RMul(v0.x, v1.y), RMul(v0.y, v1.x))]

\* Math.sqrt(v.x ** 2 + v.y ** 2 + v.z ** 2).  The exact root is taken of
\* the vector divided by its largest coordinate, so that the squares of
\* coordinates below the tolerance stay within the model's integers.
\* With a coordinate whose square is Infinity, the sum and its root are
\* Infinity.
getSize(v) ==
    IF v.x = Huge \/ v.y = Huge \/ v.z = Huge THEN Infinity
    ELSE
    Bound([m \in {RMax(RAbs(v.x), RMax(RAbs(v.y), RAbs(v.z)))} |->
        IF m.n = 0 THEN R(0)
        ELSE Bound([w \in {scale(v, RDiv(R(1), m))} |->
                RMul(m, RSqrt(dot(w, w)))])])

getDist(v0, v1) == getSize(subtract(v1, v0))

\* Every coordinate (finite) divided by a size of Infinity is 0.
normalize(v) ==
    Bound([size \in {getSize(v)} |->
        IF size = Infinity THEN V3(0, 0, 0)
        ELSE IF size.n = 0 THEN V3(0, 0, 0)
        ELSE scale(v, RDiv(R(1), size))])

isParallel(v0, v1) ==
    LET dotAbs == RAbs(dot(normalize(v0), normalize(v1)))
    IN  RLe(RAbs(RSub(dotAbs, R(1))), TOLERANCE_PARALLEL)

isParallelLines(li0, li1) ==
    isParallel(subtract(li0.p1, li0.p0), subtract(li1.p1, li1.p0))

\* rotateOnXY(v, Math.PI * 0.5), the only angle the box tests use: the
\* cosine of the double nearest pi/2 (6.1e-17) is taken as 0, the sine as 1.
rotateOnXY(v) == [x |-> RNeg(v.y), y |-> v.x, z |-> v.z]

-----------------------------------------------------------------------------
(* LineEvaluation (utils/lineEvaluationUtils.ts).                          *)

\* JavaScript's undefined, where an object (a point, a result) is absent.
undefined == [undefined |-> TRUE]

\* The absent message of a result that carries none.
noMessage == ""

\* A variant of getParameterOnLine that loses the sign of the parameter.
getParameterOnLine_Unsigned(p0, p1, ptTest) ==
    Bound([direction \in {subtract(p1, p0)} |->
    Bound([lengthSquared \in {dot(direction, direction)} |->
        LET toTest == subtract(ptTest, p0)
        IN  IF lengthSquared.n = 0 THEN R(0)
            ELSE RAbs(RDiv(dot(toTest, direction), lengthSquared))])])

getParameterOnLine(p0, p1, ptTest) ==
    Bound([direction \in {subtract(p1, p0)} |->
    Bound([lengthSquared \in {dot(direction, direction)} |->
        LET toTest == subtract(ptTest, p0)
        IN  IF lengthSquared.n = 0 THEN R(0)
            ELSE RDiv(dot(toTest, direction), lengthSquared)])])

\* The foot point of pt on the direction whose normalisation is norm, of
\* size dSize: the part of getFootPointOnDirection after its guard.
FootPointOnNormalized(norm, dSize, pt) ==
    Bound([t \in {RDiv(dot(norm, pt), RMul(dSize, dSize))} |->
        [pt |-> scale(norm, t), t |-> t]])

getFootPointOnDirection(direction, pt) ==
    IF RLt(getSize(direction), TOLERANCE_LINE_EVALUATION) THEN undefined
    ELSE Bound([norm \in {normalize(direction)} |->
            FootPointOnNormalized(norm, getSize(norm), pt)])

\* A variant of getFootPointOnLine whose t is the distance along the line.
getFootPointOnLine_DistanceAsParameter(line, pt) ==
    Bound([direction \in {subtract(line.p1, line.p0)} |->
        IF RLt(getSize(direction), TOLERANCE_LINE_EVALUATION) THEN undefined
        ELSE
        LET anchor == line.p0
            ptMoved == subtract(pt, anchor)
        IN
        Bound([norm \in {normalize(direction)} |->
        Bound([dSize \in {getSize(norm)} |->
            IF dSize.n = 0 THEN undefined
            ELSE
            Bound([dotv \in {dot(norm, ptMoved)} |->
                [pt |-> add(scale(norm, dotv), anchor),
                 t |-> dotv]])])])])

getFootPointOnLine(line, pt) ==
    Bound([direction \in {subtract(line.p1, line.p0)} |->
        IF RLt(getSize(direction), TOLERANCE_LINE_EVALUATION) THEN undefined
        ELSE
        LET anchor == line.p0
            ptMoved == subtract(pt, anchor)
        IN
        Bound([norm \in {normalize(direction)} |->
        Bound([dSize \in {getSize(norm)} |->
            IF dSize.n = 0 THEN undefined
            ELSE
            Bound([dotv \in {dot(norm, ptMoved)} |->
                [pt |-> add(scale(norm, dotv), anchor),
                 t |-> RDiv(dotv, getSize(direction))]])])])])

\* The vertex with its z replaced by 0 (the projections on the XY plane).
OnXY(v) == [x |-> v.x, y |-> v.y, z |-> R(0)]

\* Each `const` of the function is bound once, in the order of the source.
getIntersection(li0, li1, fromExtended) ==
    IF isParallelLines(li0, li1)
    THEN [result |-> FALSE, pt |-> undefined, message |-> "Parallel or same Lines"]
    ELSE
    Bound([p1p3 \in {OnXY(subtract(li1.p1, li0.p1))} |->
    Bound([d0 \in {normalize(subtract(li0.p1, li0.p0))} |->
    Bound([d1 \in {normalize(subtract(li1.p1, li1.p0))} |->
    Bound([d0PlaneXY \in {normalize(OnXY(d0))} |->
    Bound([d1PlaneXY \in {normalize(OnXY(d1))} |->
    Bound([det \in {RAdd(RNeg(RMul(d0PlaneXY.x, d1PlaneXY.y)),
              RMul(d1PlaneXY.x, d0PlaneXY.y))} |->
        IF RLt(RAbs(det), TOLERANCE_LINE_EVALUATION)
        THEN [result |-> FALSE, pt |-> undefined,
              message |-> "Det is zero (parallel lines)"]
        ELSE
        Bound([t \in {RDiv(RNeg(RSub(RMul(d1PlaneXY.y, p1p3.x), RMul(d1PlaneXY.x, p1p3.y))),
                  det)} |->
        Bound([u \in {RDiv(RNeg(RSub(RMul(d0PlaneXY.y, p1p3.x), RMul(d0PlaneXY.x, p1p3.y))),
                  det)} |->
        Bound([ptQ \in {add(OnXY(li0.p1), scale(d0PlaneXY, t))} |->
        Bound([ptR \in {add(OnXY(li1.p1), scale(d1PlaneXY, u))} |->
            IF RGt(getDist(ptQ, ptR), TOLERANCE_LINE_EVALUATION)
            THEN [result |-> FALSE, pt |-> undefined,
                  message |-> "Each points on XY Plane is not same."]
            ELSE
            Bound([vLi0 \in {RMul(dot(subtract(ptQ, OnXY(li0.p0)), d0PlaneXY),
                      RDiv(getDist(li0.p1, li0.p0),
                           getDist(OnXY(li0.p1), OnXY(li0.p0))))} |->
            Bound([vLi1 \in {RMul(dot(subtract(ptR, OnXY(li1.p0)), d1PlaneXY),
                      RDiv(getDist(li1.p1, li1.p0),
                           getDist(OnXY(li1.p1), OnXY(li1.p0))))} |->
            Bound([ptQ2 \in {add(li0.p0, scale(d0, vLi0))} |->
            Bound([ptR2 \in {add(li1.p0, scale(d1, vLi1))} |->
                IF RGt(getDist(ptQ2, ptR2), TOLERANCE_LINE_EVALUATION)
                THEN [result |-> FALSE, pt |-> undefined,
                      message |-> "Two line's are on skew position."]
                ELSE IF fromExtended
                THEN [result |-> TRUE, pt |-> ptQ2, message |-> noMessage]
                ELSE
                Bound([paramPtQ2 \in {getParameterOnLine(li0.p0, li0.p1, ptQ2)} |->
                Bound([paramPtR2 \in {getParameterOnLine(li1.p0, li1.p1, ptR2)} |->
                    IF /\ RLe(RNeg(TOLERANCE_LINE_EVALUATION), paramPtQ2)
                       /\ RLe(paramPtQ2, RAdd(R(1), TOLERANCE_LINE_EVALUATION))
                       /\ RLe(RNeg(TOLERANCE_LINE_EVALUATION), paramPtR2)
                       /\ RLe(paramPtR2, RAdd(R(1), TOLERANCE_LINE_EVALUATION))
                    THEN [result |-> TRUE, pt |-> ptQ2, message |-> noMessage]
                    ELSE [result |-> FALSE, pt |-> undefined,
                          message |->
                            "One of the points are placed on outside the line's domain."]
                ])])])])])])])])])])])])])])])])

-----------------------------------------------------------------------------
(* CollisionUtils (utils/collisionUtils.ts): the separating-axis tests.    *)

\* { ...v, z: 0 }: a Vertex2d as a Vertex3d.
WithZ0(v) == [x |-> v.x, y |-> v.y, z |-> R(0)]

\* The least and the greatest of the parameters t of a list of foot points:
\* elements [0] and [length - 1] of the list sorted by t.
MinT(pts) ==
    CHOOSE t \in {pts[i].t : i \in 1..Len(pts)} :
        \A i \in 1..Len(pts) : RLe(t, pts[i].t)

MaxT(pts) ==
    CHOOSE t \in {pts[i].t : i \in 1..Len(pts)} :
        \A i \in 1..Len(pts) : RLe(pts[i].t, t)

RECURSIVE FootPointsOnNormalized(_, _, _)
FootPointsOnNormalized(norm, dSize, corners) ==
    IF Len(corners) = 0 THEN <<>>
    ELSE <<FootPointOnNormalized(norm, dSize, Head(corners))>>
         \o FootPointsOnNormalized(norm, dSize, Tail(corners))

\* getFootPointOnDirection(axis, p) of every corner p of a box, in the order
\* of the corners.  The guard and the normalisation of the axis, which do
\* not depend on p, are evaluated once for the list.
FootPoints(axis, corners) ==
    IF RLt(getSize(axis), TOLERANCE_LINE_EVALUATION)
    THEN [i \in 1..Len(corners) |-> undefined]
    ELSE Bound([norm \in {normalize(axis)} |->
         Bound([dSize \in {getSize(norm)} |->
             FootPointsOnNormalized(norm, dSize, corners)])])

\* A variant of isSeparated that looks for box A below box B only.
isSeparated_OneSided(sectionByA, sectionByB, includeContating) ==
    IF includeContating
    THEN RLt(sectionByA[2], RSub(sectionByB[1], COLLISION_TOLERANCE))
    ELSE RLt(sectionByA[2], RAdd(sectionByB[1], COLLISION_TOLERANCE))

\* A variant of isSeparated that compares the sections without the
\* tolerance when contacts are excluded.
isSeparated_NoTolerance(sectionByA, sectionByB, includeContating) ==
    IF includeContating
    THEN \/ RLt(sectionByA[2], RSub(sectionByB[1], COLLISION_TOLERANCE))
         \/ RLt(sectionByB[2], RSub(sectionByA[1], COLLISION_TOLERANCE))
    ELSE \/ RLt(sectionByA[2], sectionByB[1])
         \/ RLt(sectionByB[2], sectionByA[1])

\* A variant of isSeparated that takes a gap of exactly the tolerance for a
\* separation.
isSeparated_AtTolerance(sectionByA, sectionByB, includeContating) ==
    IF includeContating
    THEN \/ RLe(sectionByA[2], RSub(sectionByB[1], COLLISION_TOLERANCE))
         \/ RLe(sectionByB[2], RSub(sectionByA[1], COLLISION_TOLERANCE))
    ELSE \/ RLt(sectionByA[2], RAdd(sectionByB[1], COLLISION_TOLERANCE))
         \/ RLt(sectionByB[2], RAdd(sectionByA[1], COLLISION_TOLERANCE))

\* isSeparated of the axis callback: the sections [min, max] of the two
\* boxes on the axis do not overlap.
isSeparated(sectionByA, sectionByB, includeContating) ==
    IF includeContating
    THEN \/ RLt(sectionByA[2], RSub(sectionByB[1], COLLISION_TOLERANCE))
         \/ RLt(sectionByB[2], RSub(sectionByA[1], COLLISION_TOLERANCE))
    ELSE \/ RLt(sectionByA[2], RAdd(sectionByB[1], COLLISION_TOLERANCE))
         \/ RLt(sectionByB[2], RAdd(sectionByA[1], COLLISION_TOLERANCE))

\* The test of one axis: the callback of axes.map in both box tests.
\* cornersA and cornersB are the corner lists of the two boxes.
AxisCollisionResult(axis, cornersA, cornersB, includeContating) ==
    Bound([ptsOnAxis \in {<<FootPoints(axis, cornersA), FootPoints(axis, cornersB)>>} |->
    LET ptsOnAxisFromA == ptsOnAxis[1]
        ptsOnAxisFromB == ptsOnAxis[2]
        checkUndefinedPtsA ==
            \A i \in 1..Len(ptsOnAxisFromA) : ptsOnAxisFromA[i] # undefined
        checkUndefinedPtsB ==
            \A i \in 1..Len(ptsOnAxisFromB) : ptsOnAxisFromB[i] # undefined
    IN  IF ~checkUndefinedPtsA \/ ~checkUndefinedPtsB
        THEN [hasError |-> TRUE, hasCollision |-> FALSE,
              sectionByA |-> undefined, sectionByB |-> undefined]
        ELSE
        Bound([section \in {<< <<MinT(ptsOnAxisFromA), MaxT(ptsOnAxisFromA)>>,
                <<MinT(ptsOnAxisFromB), MaxT(ptsOnAxisFromB)>> >>} |->
            [hasError |-> FALSE,
             hasCollision |-> ~isSeparated(section[1], section[2], includeContating),
             sectionByA |-> section[1], sectionByB |-> section[2]]])])

\* The four corners p0..p3 of a 2D box, as the test builds them.
Corners2d(box) ==
    LET uAxis == normalize(WithZ0(box.uAxis))
        vAxis == rotateOnXY(uAxis)
        p0 == WithZ0(box.anchor)
        p1 == add(p0, scale(uAxis, box.length.u))
        p3 == add(p0, scale(vAxis, box.length.v))
        p2 == add(p1, scale(vAxis, box.length.v))
    IN  <<p0, p1, p2, p3>>

\* A variant of Axes2d that projects on the axes of box A only.
Axes2d_OnlyAxesOfA(boxA, boxB) ==
    LET uAxisOfA == normalize(WithZ0(boxA.uAxis))
    IN  <<uAxisOfA, rotateOnXY(uAxisOfA), uAxisOfA, rotateOnXY(uAxisOfA)>>

\* The four axes the 2D test projects on: uA, vA, uB, vB.
Axes2d(boxA, boxB) ==
    LET uAxisOfA == normalize(WithZ0(boxA.uAxis))
        uAxisOfB == normalize(WithZ0(boxB.uAxis))
    IN  <<uAxisOfA, rotateOnXY(uAxisOfA), uAxisOfB, rotateOnXY(uAxisOfB)>>

\* The args of a result: the sections of every axis.
SectionsOf(collisionResult) ==
    [i \in 1..Len(collisionResult) |->
        [setionByA |-> collisionResult[i].sectionByA,
         setionByB |-> collisionResult[i].sectionByB]]

\* An absent hasError (the 2D result of a validated pair carries none) is
\* modelled as FALSE; an absent args as the empty list.
hasBoundingBoxCollision2d(boxA, boxB, includeContating) ==
    IF \/ SizeLe(getSize(WithZ0(boxA.uAxis)), ZERO_VECTOR_TOLERANCE)
       \/ SizeLe(getSize(WithZ0(boxB.uAxis)), ZERO_VECTOR_TOLERANCE)
    THEN [result |-> FALSE, hasError |-> TRUE,
          message |-> "The vector of each boundingbox should not be zero.",
          args |-> <<>>]
    ELSE
    Bound([built \in {<<Axes2d(boxA, boxB), Corners2d(boxA), Corners2d(boxB)>>} |->
    Bound([collisionResult \in {[i \in 1..4 |->
            AxisCollisionResult(built[1][i], built[2], built[3], includeContating)]} |->
        [result |-> \A i \in 1..4 :
                        ~collisionResult[i].hasError /\ collisionResult[i].hasCollision,
         hasError |-> FALSE,
         message |-> noMessage,
         args |-> SectionsOf(collisionResult)]])])

\* The eight corners p0..p7 of a 3D box, as the test builds them.
Corners3d(box) ==
    LET uAxis == normalize(box.uAxis)
        vAxis == normalize(box.vAxis)
        nAxis == normalize(cross(uAxis, vAxis))
        p0 == box.anchor
        p1 == add(p0, scale(uAxis, box.length.u))
        p2 == add(p1, scale(vAxis, box.length.v))
        p3 == add(p0, scale(vAxis, box.length.v))
        p4 == add(p0, scale(nAxis, box.length.n))
        p5 == add(p1, scale(nAxis, box.length.n))
        p6 == add(p2, scale(nAxis, box.length.n))
        p7 == add(p3, scale(nAxis, box.length.n))
    IN  <<p0, p1, p2, p3, p4, p5, p6, p7>>

\* The axes the 3D test projects on: uA, vA, nA, uB, vB, nB.
Axes3d(boxA, boxB) ==
    LET uAxisA == normalize(boxA.uAxis)
        vAxisA == normalize(boxA.vAxis)
        uAxisB == normalize(boxB.uAxis)
        vAxisB == normalize(boxB.vAxis)
    IN  <<uAxisA, vAxisA, normalize(cross(uAxisA, vAxisA)),
          uAxisB, vAxisB, normalize(cross(uAxisB, vAxisB))>>

hasBoundingBoxCollision3d(boxA, boxB, includeContating) ==
    IF \E axis \in {boxA.uAxis, boxA.vAxis, boxB.uAxis, boxB.vAxis} :
          SizeLe(getSize(axis), ZERO_VECTOR_TOLERANCE)
    THEN [result |-> FALSE, hasError |-> TRUE,
          message |-> "Some axes are zero vector.", args |-> <<>>]
    ELSE
    LET isPerpendicularA ==
            RLt(RAbs(dot(normalize(boxA.uAxis), normalize(boxA.vAxis))),
                UNIT_VECTOR_TOLERANCE)
        isPerpendicularB ==
            RLt(RAbs(dot(normalize(boxB.uAxis), normalize(boxB.vAxis))),
                UNIT_VECTOR_TOLERANCE)
    IN  IF ~isPerpendicularA \/ ~isPerpendicularB
        THEN [result |-> FALSE, hasError |-> TRUE,
              message |-> "U, V axis of each box should be perpendicular to each other.",
              args |-> <<>>]
        ELSE
        Bound([built \in {<<Axes3d(boxA, boxB), Corners3d(boxA), Corners3d(boxB)>>} |->
        Bound([collisionResult \in {[i \in 1..6 |->
                AxisCollisionResult(built[1][i], built[2], built[3], includeContating)]} |->
            LET containsError == \E i \in 1..6 : collisionResult[i].hasError
                containSeparated == \E i \in 1..6 : ~collisionResult[i].hasCollision
            IN  [result |-> ~containSeparated,
                 hasError |-> containsError,
                 message |-> noMessage,
                 args |-> SectionsOf(collisionResult)]])])

-----------------------------------------------------------------------------
(* The BVH tree (models/bvhTree): vertices, triangles, bounding boxes.     *)

\* A variant of getHash on a grid of twice the resolution.
VertexHash_CoarseGrid(v) ==
    <<RRound(RDiv(RMul(v.x, R(PRECISION)), R(2))),
      RRound(RDiv(RMul(v.y, R(PRECISION)), R(2))),
      RRound(RDiv(RMul(v.z, R(PRECISION)), R(2)))>>

\* BVHVertex.getHash: the coordinates rounded on the 1e-6 grid.  The string
\* "x,y,z" of the source is the triple of the three integers.
VertexHash(v) ==
    <<RRound(RMul(v.x, R(PRECISION))),
      RRound(RMul(v.y, R(PRECISION))),
      RRound(RMul(v.z, R(PRECISION)))>>

\* BVHTriangle.getHash: the three vertex hashes joined by "-".
TriangleHash(t) == <<VertexHash(t.v1), VertexHash(t.v2), VertexHash(t.v3)>>

\* A variant of the constructor's test that rejects any two equal vertices.
IsDuplicated_AnyPair(v1, v2, v3) ==
    \/ VertexHash(v1) = VertexHash(v2)
    \/ VertexHash(v2) = VertexHash(v3)
    \/ VertexHash(v3) = VertexHash(v1)

\* The test of the BVHTriangle constructor: whether it throws.
IsDuplicated(v1, v2, v3) ==
    /\ VertexHash(v1) = VertexHash(v2)
    /\ VertexHash(v2) = VertexHash(v3)
    /\ VertexHash(v3) = VertexHash(v1)

\* BVHTriangle.getCentroid.
TriangleCentroid(t) ==
    [x |-> RDiv(RAdd(RAdd(t.v1.x, t.v2.x), t.v3.x), R(3)),
     y |-> RDiv(RAdd(RAdd(t.v1.y, t.v2.y), t.v3.y), R(3)),
     z |-> RDiv(RAdd(RAdd(t.v1.z, t.v2.z), t.v3.z), R(3))]

\* Math.min and Math.max of a box coordinate (a number, or the infinity it
\* starts at) and a number.
MathMin(cur, x) == IF cur = Infinity THEN x ELSE RMin(cur, x)
MathMax(cur, x) == IF cur = NegInfinity THEN x ELSE RMax(cur, x)

\* BVHBoundingBox.create().
EmptyBox ==
    [min |-> [x |-> Infinity, y |-> Infinity, z |-> Infinity],
     max |-> [x |-> NegInfinity, y |-> NegInfinity, z |-> NegInfinity],
     vertexHashes |-> {},
     initialized |-> FALSE]

\* BVHBoundingBox.addVertex: the box after the call.
BoxAddVertex(box, v) ==
    IF VertexHash(v) \in box.vertexHashes THEN box
    ELSE [min |-> [x |-> MathMin(box.min.x, v.x),
                   y |-> MathMin(box.min.y, v.y),
                   z |-> MathMin(box.min.z, v.z)],
          max |-> [x |-> MathMax(box.max.x, v.x),
                   y |-> MathMax(box.max.y, v.y),
                   z |-> MathMax(box.max.z, v.z)],
          vertexHashes |-> box.vertexHashes \cup {VertexHash(v)},
          initialized |-> TRUE]

\* BVHBoundingBox.getDiagonal.
BoxDiagonal(box) ==
    IF ~box.initialized THEN undefined ELSE subtract(box.max, box.min)

\* The absent node of a leftChild, rightChild or parent reference.
NoNode == 0

\* new BVHTree().
NewTree ==
    [triangles |-> <<>>, triangleHashes |-> {},
     leftChild |-> NoNode, rightChild |-> NoNode, parent |-> NoNode,
     boundingBox |-> EmptyBox]

\* A variant of addTriangle without the test of the hash set.
AddTriangleAccepts_Always(node, triangle) == TRUE

\* BVHTree.addTriangle on a node: whether the triangle is accepted.
AddTriangleAccepts(node, triangle) ==
    TriangleHash(triangle) \notin node.triangleHashes

\* BVHTree.addTriangle on a node: the node after the call.
NodeAddTriangle(node, triangle) ==
    IF ~AddTriangleAccepts(node, triangle) THEN node
    ELSE [node EXCEPT
            !.triangles = Append(@, triangle),
            !.triangleHashes = @ \cup {TriangleHash(triangle)},
            !.boundingBox =
                BoxAddVertex(BoxAddVertex(BoxAddVertex(@, triangle.v1),
                                          triangle.v2), triangle.v3)]

\* A variant of the fill that stops after the first triangle.
NodeAddAll_OnlyFirst(node, triangles) ==
    IF Len(triangles) = 0 THEN node
    ELSE NodeAddTriangle(node, Head(triangles))

\* triangles.forEach(t => node.addTriangle(t)) on a fresh node.
RECURSIVE NodeAddAll(_, _)
NodeAddAll(node, triangles) ==
    IF Len(triangles) = 0 THEN node
    ELSE NodeAddAll(NodeAddTriangle(node, Head(triangles)), Tail(triangles))

-----------------------------------------------------------------------------
(* The build: getSortedTriangles, BVHTriangleEnumerator.split,             *)
(* buildBVHTree, calculateTree.  The nodes live in a heap, a sequence of   *)
(* node records; a reference to a node is its index, NoNode the absent one.*)

\* The comparators of the two sorts compare a list of centroid coordinates
\* in order: (a.k1 - b.k1) || (a.k2 - b.k2) < 0.
RECURSIVE KeyLess(_, _)
KeyLess(k1, k2) ==
    IF Len(k1) = 0 THEN FALSE
    ELSE IF RLt(Head(k1), Head(k2)) THEN TRUE
    ELSE IF RLt(Head(k2), Head(k1)) THEN FALSE
    ELSE KeyLess(Tail(k1), Tail(k2))

\* One step of Array.prototype.sort, which is stable: e goes before the
\* first element that compares greater than it.
RECURSIVE InsertSorted(_, _)
InsertSorted(sorted, e) ==
    IF Len(sorted) = 0 THEN <<e>>
    ELSE IF KeyLess(e.key, Head(sorted).key) THEN <<e>> \o sorted
    ELSE <<Head(sorted)>> \o InsertSorted(Tail(sorted), e)

RECURSIVE StableSort(_)
StableSort(keyed) ==
    IF Len(keyed) = 0 THEN <<>>
    ELSE InsertSorted(StableSort(SubSeq(keyed, 1, Len(keyed) - 1)),
                      keyed[Len(keyed)])

\* The coordinate of a vertex on an axis "x", "y" or "z".
Coord(v, axis) == IF axis = "x" THEN v.x ELSE IF axis = "y" THEN v.y ELSE v.z

\* The triangles sorted by the centroid coordinates on the given axes.
SortByCentroid(triangles, axes) ==
    Bound([keyed \in {[i \in 1..Len(triangles) |->
                        [key |-> [j \in 1..Len(axes) |->
                                    Coord(TriangleCentroid(triangles[i]), axes[j])],
                         val |-> triangles[i]]]} |->
    Bound([sorted \in {StableSort(keyed)} |->
        [i \in 1..Len(sorted) |-> sorted[i].val]])])

\* BVHTree.getSortedTriangles of a node whose box has a diagonal (the
\* clones are the triangles themselves: a triangle is its three vertices).
getSortedTriangles(node) ==
    Bound([diagonal \in {BoxDiagonal(node.boundingBox)} |->
        LET isXMajor == RGt(diagonal.x, diagonal.y)
        IN  SortByCentroid(node.triangles,
                           IF isXMajor THEN <<"x", "y">> ELSE <<"y", "x">>)])

\* A variant of split that cuts after the first triangle.
split_AfterFirst(triangles, axis) ==
    Bound([sorted \in {SortByCentroid(triangles, <<axis>>)} |->
        <<SubSeq(sorted, 1, 1), SubSeq(sorted, 2, Len(sorted))>>])

\* A split whose upper half starts one element late: the element at the
\* midpoint goes to neither half.
split_DropsMidpoint(triangles, axis) ==
    Bound([sorted \in {SortByCentroid(triangles, <<axis>>)} |->
        LET mid == Len(sorted) \div 2
        IN  <<SubSeq(sorted, 1, mid), SubSeq(sorted, mid + 2, Len(sorted))>>])

\* BVHTriangleEnumerator.split.
split(triangles, axis) ==
    Bound([sorted \in {SortByCentroid(triangles, <<axis>>)} |->
        LET mid == Len(sorted) \div 2
        IN  <<SubSeq(sorted, 1, mid), SubSeq(sorted, mid + 1, Len(sorted))>>])

\* A variant of the choice of the split axis that never takes z.
SplitAxis_NeverZ(diagonal) ==
    IF RGe(diagonal.x, diagonal.y) THEN "x" ELSE "y"

\* The split axis buildBVHTree chooses from the diagonal of the node's box.
SplitAxis(diagonal) ==
    IF RGe(diagonal.x, diagonal.y) /\ RGe(diagonal.x, diagonal.z) THEN "x"
    ELSE IF RGe(diagonal.y, diagonal.z) THEN "y"
    ELSE "z"

\* The two halves buildBVHTree passes to the children of a node.
Halves(node, triangles) ==
    Bound([diagonal \in {BoxDiagonal(node.boundingBox)} |->
        LET mid == Len(triangles) \div 2
        IN  IF diagonal = undefined
            THEN <<SubSeq(triangles, 1, mid),
                   SubSeq(triangles, mid + 1, Len(triangles))>>
            ELSE split(triangles, SplitAxis(diagonal))])

\* BVHTree.buildBVHTree: the heap with the new nodes, and the node returned.
RECURSIVE buildBVHTree(_, _)
buildBVHTree(heap, triangles) ==
    Bound([node \in {NodeAddAll(NewTree, triangles)} |->
        LET id == Len(heap) + 1
        IN  IF Len(triangles) <= 1
            THEN [heap |-> Append(heap, node), node |-> id]
            ELSE
            Bound([halves \in {Halves(node, triangles)} |->
            Bound([left \in {buildBVHTree(Append(heap, node), halves[1])} |->
            Bound([right \in {buildBVHTree(left.heap, halves[2])} |->
                [heap |-> [right.heap EXCEPT
                              ![id].leftChild = left.node,
                              ![id].rightChild = right.node,
                              ![left.node].parent = id,
                              ![right.node].parent = id],
                 node |-> id]])])])])

\* Whether BVHTree.calculateTree throws: getSortedTriangles finds no
\* diagonal.
CalculateTreeThrows(node) == BoxDiagonal(node.boundingBox) = undefined

\* A variant of calculateTree that hangs the tree it built below its
\* receiver.
calculateTree_InPlace(heap, n) ==
    Bound([built \in {buildBVHTree(heap, getSortedTriangles(heap[n]))} |->
        [heap |-> [built.heap EXCEPT ![n].leftChild = built.node],
         node |-> built.node]])

\* BVHTree.calculateTree on node n of the heap, where it does not throw.
calculateTree(heap, n) == buildBVHTree(heap, getSortedTriangles(heap[n]))

-----------------------------------------------------------------------------
(* The enumeration and the root lookup: traverseTree, getAllNodes,         *)
(* getAllBoundingBoxes, getRoot.                                           *)

\* A variant of traverseTree that visits the right child before the left.
RECURSIVE traverseTree_RightFirst(_, _, _)
traverseTree_RightFirst(heap, n, list) ==
    Bound([afterRight \in {IF heap[n].rightChild = NoNode THEN Append(list, n)
                           ELSE traverseTree_RightFirst(heap, heap[n].rightChild,
                                                        Append(list, n))} |->
        IF heap[n].leftChild = NoNode THEN afterRight
        ELSE traverseTree_RightFirst(heap, heap[n].leftChild, afterRight)])

\* BVHTree.traverseTree on node n: the list after the call.
RECURSIVE traverseTree(_, _, _)
traverseTree(heap, n, list) ==
    Bound([afterLeft \in {IF heap[n].leftChild = NoNode THEN Append(list, n)
                          ELSE traverseTree(heap, heap[n].leftChild,
                                            Append(list, n))} |->
        IF heap[n].rightChild = NoNode THEN afterLeft
        ELSE traverseTree(heap, heap[n].rightChild, afterLeft)])

\* BVHTree.getAllNodes.
getAllNodes(heap, n) == traverseTree(heap, n, <<>>)

\* BVHTree.getAllBoundingBoxes.
getAllBoundingBoxes(heap, n) ==
    Bound([all \in {getAllNodes(heap, n)} |->
        [i \in 1..Len(all) |-> heap[all[i]].boundingBox]])

\* A variant of getRoot that climbs one parent only.
getRoot_OneStep(heap, current) ==
    IF heap[current].parent # NoNode THEN heap[current].parent ELSE current

\* BVHTree.getRoot.
RECURSIVE getRoot(_, _)
getRoot(heap, current) ==
    IF heap[current].parent # NoNode THEN getRoot(heap, heap[current].parent)
    ELSE current

-----------------------------------------------------------------------------
(* The ray query: isPointInside, raycastOnPlane, isRayCollideAABB,         *)
(* getPointOnTrianglePlane, getRayCollision.                               *)

isPointInside(pt, min, max) ==
    /\ RLe(min.x, pt.x) /\ RLe(pt.x, max.x)
    /\ RLe(min.y, pt.y) /\ RLe(pt.y, max.y)
    /\ RLe(min.z, pt.z) /\ RLe(pt.z, max.z)

\* BVHTree.raycastOnPlane.  On the box no vertex was added to, value is an
\* infinity and min > max: no point is inside, the result is undefined.
raycastOnPlane(p1, p2, axis, value, ptMin, ptMax) ==
    Bound([delta \in {RSub(Coord(p2, axis), Coord(p1, axis))} |->
        IF delta.n = 0 THEN undefined
        ELSE IF value \in {Infinity, NegInfinity} THEN undefined
        ELSE
        Bound([t \in {RDiv(RSub(value, Coord(p1, axis)), delta)} |->
        Bound([pt \in {[x |-> RAdd(p1.x, RMul(t, RSub(p2.x, p1.x))),
                        y |-> RAdd(p1.y, RMul(t, RSub(p2.y, p1.y))),
                        z |-> RAdd(p1.z, RMul(t, RSub(p2.z, p1.z)))]} |->
            IF isPointInside(pt, ptMin, ptMax) THEN pt ELSE undefined])])])

\* The face of the box a ray is cast on: the near one by the sign of the
\* direction on the axis.
NearFace(p1, p2, axis, ptMin, ptMax) ==
    IF RSub(Coord(p2, axis), Coord(p1, axis)).n > 0
    THEN Coord(ptMin, axis) ELSE Coord(ptMax, axis)

\* The three casts of isRayCollideAABB, on z, x and y.
AABBIntersections(node, p1, p2) ==
    LET ptMin == node.boundingBox.min
        ptMax == node.boundingBox.max
    IN  [i \in 1..3 |->
            LET axis == <<"z", "x", "y">>[i]
            IN  raycastOnPlane(p1, p2, axis,
                               NearFace(p1, p2, axis, ptMin, ptMax), ptMin, ptMax)]

isRayCollideAABB(node, p1, p2) ==
    Bound([intersections \in {AABBIntersections(node, p1, p2)} |->
        Cardinality({i \in 1..3 : intersections[i] # undefined}) = 1])

\* BVHVertex.normalized() of a vertex that is not the zero vector.
normalized(v) == scale(v, RDiv(R(1), getSize(v)))

\* getPointOnTrianglePlane as a ray test: a point behind pt1 is no hit.
getPointOnTrianglePlane_AheadOnly(triangle, pt1, pt2) ==
    IF pt1 = pt2 THEN undefined
    ELSE
    Bound([V1V2 \in {subtract(triangle.v2, triangle.v1)} |->
    Bound([V1V3 \in {subtract(triangle.v3, triangle.v1)} |->
    Bound([V1P1 \in {subtract(pt1, triangle.v1)} |->
    Bound([d \in {normalized(subtract(pt2, pt1))} |->
    Bound([det \in {dot(V1V2, cross(d, V1V3))} |->
        IF det.n = 0 THEN undefined
        ELSE
        Bound([v \in {RDiv(dot(d, cross(V1V3, V1P1)), det)} |->
        Bound([w \in {RDiv(dot(d, cross(V1P1, V1V2)), det)} |->
        Bound([u \in {RSub(R(1), RAdd(v, w))} |->
            LET result == add(add(scale(triangle.v1, u), scale(triangle.v2, v)),
                              scale(triangle.v3, w))
                validParams ==
                    /\ \A val \in {u, v, w} : RGe(val, R(0)) /\ RLe(val, R(1))
                    /\ RGe(dot(subtract(result, pt1), d), R(0))
            IN  IF validParams THEN result ELSE undefined])])])])])])])])

\* getPointOnTrianglePlane with u = 1 - v: the weight w is left out.
getPointOnTrianglePlane_WeightOmitted(triangle, pt1, pt2) ==
    IF pt1 = pt2 THEN undefined
    ELSE
    Bound([V1V2 \in {subtract(triangle.v2, triangle.v1)} |->
    Bound([V1V3 \in {subtract(triangle.v3, triangle.v1)} |->
    Bound([V1P1 \in {subtract(pt1, triangle.v1)} |->
    Bound([d \in {normalized(subtract(pt2, pt1))} |->
    Bound([det \in {dot(V1V2, cross(d, V1V3))} |->
        IF det.n = 0 THEN undefined
        ELSE
        Bound([v \in {RDiv(dot(d, cross(V1V3, V1P1)), det)} |->
        Bound([w \in {RDiv(dot(d, cross(V1P1, V1V2)), det)} |->
        Bound([u \in {RSub(R(1), v)} |->
            LET result == add(add(scale(triangle.v1, u), scale(triangle.v2, v)),
                              scale(triangle.v3, w))
                validParams ==
                    \A val \in {u, v, w} : RGe(val, R(0)) /\ RLe(val, R(1))
            IN  IF validParams THEN result ELSE undefined])])])])])])])])

\* BVHTriangle.getPointOnTrianglePlane.  For pt1 = pt2 the source computes
\* with NaN: the determinant is no zero and no parameter is valid, the
\* result is undefined.
getPointOnTrianglePlane(triangle, pt1, pt2) ==
    IF pt1 = pt2 THEN undefined
    ELSE
    Bound([V1V2 \in {subtract(triangle.v2, triangle.v1)} |->
    Bound([V1V3 \in {subtract(triangle.v3, triangle.v1)} |->
    Bound([V1P1 \in {subtract(pt1, triangle.v1)} |->
    Bound([d \in {normalized(subtract(pt2, pt1))} |->
    Bound([det \in {dot(V1V2, cross(d, V1V3))} |->
        IF det.n = 0 THEN undefined
        ELSE
        Bound([v \in {RDiv(dot(d, cross(V1V3, V1P1)), det)} |->
        Bound([w \in {RDiv(dot(d, cross(V1P1, V1V2)), det)} |->
        Bound([u \in {RSub(R(1), RAdd(v, w))} |->
            LET result == add(add(scale(triangle.v1, u), scale(triangle.v2, v)),
                              scale(triangle.v3, w))
                validParams ==
                    \A val \in {u, v, w} : RGe(val, R(0)) /\ RLe(val, R(1))
            IN  IF validParams THEN result ELSE undefined])])])])])])])])

\* A variant of the loop that takes a point off the segment as well.
RECURSIVE FirstHit_OffSegment(_, _, _, _)
FirstHit_OffSegment(triangles, p1, p2, onlyOnLine) ==
    IF Len(triangles) = 0 THEN undefined
    ELSE
    Bound([ptTest \in {getPointOnTrianglePlane(Head(triangles), p1, p2)} |->
        IF ptTest # undefined THEN ptTest
        ELSE FirstHit_OffSegment(Tail(triangles), p1, p2, onlyOnLine)])

\* The loop of getRayCollision over the triangles of a leaf: the point of
\* the first triangle that passes, undefined when none does.
RECURSIVE FirstHit(_, _, _, _)
FirstHit(triangles, p1, p2, onlyOnLine) ==
    IF Len(triangles) = 0 THEN undefined
    ELSE
    Bound([ptTest \in {getPointOnTrianglePlane(Head(triangles), p1, p2)} |->
        LET onLine == RLe(dot(subtract(ptTest, p1), subtract(ptTest, p2)), R(0))
        IN  IF ptTest # undefined /\ (~onlyOnLine \/ onLine) THEN ptTest
            ELSE FirstHit(Tail(triangles), p1, p2, onlyOnLine)])

\* A variant of getRayCollision that asks the right child first.
RECURSIVE getRayCollision_RightFirst(_, _, _, _, _)
getRayCollision_RightFirst(heap, n, p1, p2, onlyOnLine) ==
    LET node == heap[n]
        isLeaf == node.leftChild = NoNode /\ node.rightChild = NoNode
        left == IF node.leftChild = NoNode THEN undefined
                ELSE getRayCollision_RightFirst(heap, node.leftChild,
                                                p1, p2, onlyOnLine)
    IN  IF ~isRayCollideAABB(node, p1, p2) THEN undefined
        ELSE
        Bound([hit \in {IF isLeaf
                        THEN FirstHit(node.triangles, p1, p2, onlyOnLine)
                        ELSE undefined} |->
            IF hit # undefined THEN hit
            ELSE
            Bound([right \in {IF node.rightChild = NoNode THEN undefined
                              ELSE getRayCollision_RightFirst(heap, node.rightChild,
                                                              p1, p2, onlyOnLine)} |->
                IF right # undefined THEN right ELSE left])])

\* A variant of getRayCollision that asks the left child only.
RECURSIVE getRayCollision_LeftOnly(_, _, _, _, _)
getRayCollision_LeftOnly(heap, n, p1, p2, onlyOnLine) ==
    LET node == heap[n]
        isLeaf == node.leftChild = NoNode /\ node.rightChild = NoNode
    IN  IF ~isRayCollideAABB(node, p1, p2) THEN undefined
        ELSE
        Bound([hit \in {IF isLeaf
                        THEN FirstHit(node.triangles, p1, p2, onlyOnLine)
                        ELSE undefined} |->
            IF hit # undefined THEN hit
            ELSE IF node.leftChild = NoNode THEN undefined
            ELSE getRayCollision_LeftOnly(heap, node.leftChild,
                                          p1, p2, onlyOnLine)])

\* BVHTree.getRayCollision on node n of the heap.
RECURSIVE getRayCollision(_, _, _, _, _)
getRayCollision(heap, n, p1, p2, onlyOnLine) ==
    LET node == heap[n]
        isLeaf == node.leftChild = NoNode /\ node.rightChild = NoNode
        right == IF node.rightChild = NoNode THEN undefined
                 ELSE getRayCollision(heap, node.rightChild, p1, p2, onlyOnLine)
    IN  IF ~isRayCollideAABB(node, p1, p2) THEN undefined
        ELSE
        Bound([hit \in {IF isLeaf
                        THEN FirstHit(node.triangles, p1, p2, onlyOnLine)
                        ELSE undefined} |->
            IF hit # undefined THEN hit
            ELSE
            Bound([left \in {IF node.leftChild = NoNode THEN undefined
                             ELSE getRayCollision(heap, node.leftChild,
                                                  p1, p2, onlyOnLine)} |->
                IF left # undefined THEN left ELSE right])])

-----------------------------------------------------------------------------
(* The state.                                                              *)

VARIABLES
    nodes,              \* the heap of BVHTree objects; nodes[1] is the caller's
    calls,              \* the number of addTriangle and calculateTree calls made
    lastCall,           \* the last call on a tree: its receiver, arguments, outcome
    li0, li1,           \* the arguments of getIntersection
    fromExtended,
    intersection,       \* what getIntersection returned, undefined before the call
    boxA, boxB,         \* the arguments of a box test
    includeContating,
    collision           \* what the box test returned, undefined before the call

bvhVars == <<nodes, calls, lastCall>>
lineVars == <<li0, li1, fromExtended, intersection>>
boxVars == <<boxA, boxB, includeContating, collision>>
vars == <<nodes, calls, lastCall, li0, li1, fromExtended, intersection,
          boxA, boxB, includeContating, collision>>

\* The parts of the state a specification does not use.
NoTree == nodes = <<>> /\ calls = 0 /\ lastCall = [op |-> "none"]
NoLines ==
    /\ li0 = undefined /\ li1 = undefined
    /\ fromExtended = FALSE /\ intersection = undefined
NoBoxes ==
    /\ boxA = undefined /\ boxB = undefined
    /\ includeContating = FALSE /\ collision = undefined

-----------------------------------------------------------------------------
(* The tree: addTriangle, calculateTree and getRayCollision, called on any *)
(* node a caller can hold (the tree it created, a tree calculateTree       *)
(* returned, a node getAllNodes lists).                                    *)

\* The bounds of the tree specification.
NumTriangles == 3
MaxCalls == 4
MaxBuilds == 1

Tri(a, b, c) == [v1 |-> a, v2 |-> b, v3 |-> c]

\* The triangles the callers insert: distinct hashes; separated on x, on y
\* and on z, two of them with equal centroid x and y.
TrianglePool ==
    << Tri(V3(0, 0, 0), V3(1, 0, 0), V3(0, 1, 0)),
       Tri(V3(4, 0, 0), V3(5, 0, 0), V3(4, 1, 0)),
       Tri(V3(0, 0, 3), V3(1, 0, 3), V3(0, 1, 3)),
       Tri(V3(0, 6, 1), V3(1, 6, 1), V3(0, 7, 1)),
       Tri(V3(2, 2, 2), V3(3, 2, 2), V3(2, 3, 5)) >>

\* A coordinate moved off the grid by less than half a grid step.
OffGrid(i) == Frac(i * (10 * PRECISION) + 4, 10 * PRECISION)

\* Two more triangles on the vertices of the first: one with a vertex moved
\* off the grid (the same hash), one with the vertices in another order
\* (another hash).
TriangleVariants ==
    { Tri([x |-> OffGrid(0), y |-> R(0), z |-> R(0)], V3(1, 0, 0), V3(0, 1, 0)),
      Tri(V3(1, 0, 0), V3(0, 1, 0), V3(0, 0, 0)) }

Triangles == {TrianglePool[i] : i \in 1..NumTriangles} \cup TriangleVariants

\* The number of trees calculateTree has returned.
Builds == Cardinality({i \in 1..Len(nodes) : nodes[i].parent = NoNode}) - 1

InitTree ==
    /\ nodes = <<NewTree>>
    /\ calls = 0
    /\ lastCall = [op |-> "none"]

AddTriangle(n, triangle) ==
    /\ calls < MaxCalls
    /\ nodes' = [nodes EXCEPT ![n] = NodeAddTriangle(@, triangle)]
    /\ calls' = calls + 1
    /\ lastCall' =
        [op |-> "addTriangle", on |-> n, triangle |-> triangle,
         result |-> AddTriangleAccepts(nodes[n], triangle),
         message |-> IF AddTriangleAccepts(nodes[n], triangle) THEN noMessage
                     ELSE "Given triangle is already included."]
    /\ UNCHANGED <<lineVars, boxVars>>

CalculateTree(n) ==
    /\ calls < MaxCalls
    /\ Builds < MaxBuilds
    /\ calls' = calls + 1
    /\ IF CalculateTreeThrows(nodes[n])
       THEN /\ nodes' = nodes
            /\ lastCall' = [op |-> "calculateTree", on |-> n,
                            thrown |-> TRUE, returned |-> NoNode]
       ELSE /\ nodes' = calculateTree(nodes, n).heap
            /\ lastCall' = [op |-> "calculateTree", on |-> n,
                            thrown |-> FALSE,
                            returned |-> calculateTree(nodes, n).node]
    /\ UNCHANGED <<lineVars, boxVars>>

GetRayCollision(n, p1, p2, onlyOnLine) ==
    /\ lastCall' = [op |-> "getRayCollision", on |-> n,
                    p1 |-> p1, p2 |-> p2, onlyOnLine |-> onlyOnLine,
                    returned |-> getRayCollision(nodes, n, p1, p2, onlyOnLine)]
    /\ UNCHANGED <<nodes, calls, lineVars, boxVars>>

Init == InitTree /\ NoLines /\ NoBoxes

Next ==
    \/ \E n \in 1..Len(nodes), triangle \in Triangles : AddTriangle(n, triangle)
    \/ \E n \in 1..Len(nodes) : CalculateTree(n)

Spec == Init /\ [][Next]_vars

-----------------------------------------------------------------------------
(* Properties of the tree.                                                 *)

\* The nodes of the subtree of node r: r and the nodes below it.
RECURSIVE SubtreeOf(_, _)
SubtreeOf(heap, r) ==
    IF r = NoNode THEN {}
    ELSE {r} \cup SubtreeOf(heap, heap[r].leftChild)
             \cup SubtreeOf(heap, heap[r].rightChild)

IsLeaf(node) == node.leftChild = NoNode /\ node.rightChild = NoNode

\* The leaves of the subtree of node r.
LeavesOf(heap, r) == {l \in SubtreeOf(heap, r) : IsLeaf(heap[l])}

\* The hashes of the triangles in the triangle list of a node.
HeldHashes(node) ==
    {TriangleHash(node.triangles[i]) : i \in 1..Len(node.triangles)}

\* The positions, over the leaves of r, that hold hash h.
HoldersOf(heap, r, h) ==
    UNION {{<<l, i>> : i \in {j \in 1..Len(heap[l].triangles) :
                                TriangleHash(heap[l].triangles[j]) = h}} :
           l \in LeavesOf(heap, r)}

\* C1: the tree calculateTree returns partitions the triangles of its
\* receiver over its leaves: every hash of the receiver is held by exactly
\* one leaf, a leaf holds no other hash, there are at least as many leaves
\* as triangles, and for one triangle the tree is one leaf holding it.
C1_LeavesPartitionInput ==
    (lastCall.op = "calculateTree" /\ ~lastCall.thrown) =>
        LET r == lastCall.returned
            input == HeldHashes(nodes[lastCall.on])
            leaves == LeavesOf(nodes, r)
        IN  /\ \A h \in input : Cardinality(HoldersOf(nodes, r, h)) = 1
            /\ \A l \in leaves : HeldHashes(nodes[l]) \subseteq input
            /\ Cardinality(leaves) >= Cardinality(input)
            /\ Cardinality(input) = 1 =>
                  /\ leaves = {r}
                  /\ HeldHashes(nodes[r]) = input
                  /\ nodes[r].triangleHashes = input

\* C1 witness: calculateTree has returned the tree of three triangles.
C1_Witness ==
    /\ lastCall.op = "calculateTree" /\ ~lastCall.thrown
    /\ Len(nodes[lastCall.on].triangles) = 3
    /\ Cardinality(LeavesOf(nodes, lastCall.returned)) = 3

\* C9: after any calls of addTriangle and calculateTree, every triangle
\* hash an internal node holds is held by exactly one leaf below it.
C9_InternalHashesInLeaves ==
    \A n \in 1..Len(nodes) :
        ~IsLeaf(nodes[n]) =>
            \A h \in HeldHashes(nodes[n]) \cup nodes[n].triangleHashes :
                Cardinality(HoldersOf(nodes, n, h)) = 1

\* C10: calculateTree never throws, and on a node of at most one triangle
\* it returns a single leaf holding the triangles of the node.
C10_CalculateTreeNeverThrows ==
    lastCall.op = "calculateTree" =>
        /\ ~lastCall.thrown
        /\ Len(nodes[lastCall.on].triangles) <= 1 =>
              /\ IsLeaf(nodes[lastCall.returned])
              /\ nodes[lastCall.returned].triangles = nodes[lastCall.on].triangles

\* C11: addTriangle with a triangle whose hash a triangle of the node has
\* returns result false with a message and changes no node; with any other
\* triangle it returns result true, appends the triangle to the list of
\* the node (which then holds the hash once) and adds the hash to the set.
C11_AddTriangleRejectsDuplicates ==
    [][(lastCall'.op = "addTriangle" /\ calls' = calls + 1) =>
        LET n == lastCall'.on
            triangle == lastCall'.triangle
            hash == TriangleHash(triangle)
        IN  IF hash \in HeldHashes(nodes[n])
            THEN /\ lastCall'.result = FALSE
                 /\ lastCall'.message # noMessage
                 /\ nodes' = nodes
            ELSE /\ lastCall'.result = TRUE
                 /\ nodes'[n].triangles = Append(nodes[n].triangles, triangle)
                 /\ Cardinality({i \in 1..Len(nodes'[n].triangles) :
                        TriangleHash(nodes'[n].triangles[i]) = hash}) = 1
                 /\ nodes'[n].triangleHashes = nodes[n].triangleHashes \cup {hash}
                 /\ \A m \in 1..Len(nodes) : m # n => nodes'[m] = nodes[m]
    ]_vars

\* C11 witness: a triangle was rejected whose hash the node holds for a
\* triangle of other coordinates, and the node holds a triangle on the same
\* vertices in another order.
C11_Witness ==
    /\ lastCall.op = "addTriangle" /\ ~lastCall.result
    /\ \E i \in 1..Len(nodes[lastCall.on].triangles) :
          /\ nodes[lastCall.on].triangles[i] # lastCall.triangle
          /\ TriangleHash(nodes[lastCall.on].triangles[i])
                = TriangleHash(lastCall.triangle)
    /\ Tri(V3(1, 0, 0), V3(0, 1, 0), V3(0, 0, 0))
          \in {nodes[lastCall.on].triangles[i] :
                  i \in 1..Len(nodes[lastCall.on].triangles)}

\* The triangles in the lists of the leaves of the subtree of node r.
TrianglesOfLeaves(heap, r) ==
    UNION {{heap[l].triangles[i] : i \in 1..Len(heap[l].triangles)} :
           l \in LeavesOf(heap, r)}

\* C20 as stated: in the tree calculateTree returns, every internal node has
\* an empty triangle list and an empty hash set.
C20_InternalNodesHoldNothing ==
    (lastCall.op = "calculateTree" /\ ~lastCall.thrown) =>
        \A n \in SubtreeOf(nodes, lastCall.returned) :
            ~IsLeaf(nodes[n]) =>
                nodes[n].triangles = <<>> /\ nodes[n].triangleHashes = {}

\* C20, amended: in the tree calculateTree returns, every internal node
\* holds in its triangle list, each once, the triangles of the leaves below
\* it, and in its hash set their hashes; none of them is empty.
C20_InternalNodesHoldTheirLeaves ==
    (lastCall.op = "calculateTree" /\ ~lastCall.thrown) =>
        \A n \in SubtreeOf(nodes, lastCall.returned) :
            ~IsLeaf(nodes[n]) =>
                LET held == {nodes[n].triangles[i] :
                                i \in 1..Len(nodes[n].triangles)}
                IN  /\ held = TrianglesOfLeaves(nodes, n)
                    /\ Cardinality(held) = Len(nodes[n].triangles)
                    /\ nodes[n].triangleHashes = {TriangleHash(t) : t \in held}
                    /\ held # {}

\* C20 witness: calculateTree has returned a tree with an internal node below
\* its root.
C20_Witness ==
    /\ lastCall.op = "calculateTree" /\ ~lastCall.thrown
    /\ \E n \in SubtreeOf(nodes, lastCall.returned) \ {lastCall.returned} :
          ~IsLeaf(nodes[n])

-----------------------------------------------------------------------------
(* Triangles from the constructor: new BVHTriangle(v1, v2, v3) on vertices *)
(* on and off the grid, and the insertion of the triangle it returned.     *)

\* The number of constructed triangles the caller's tree takes.
MaxConstructed == 1

\* Vertices: two with one hash, two more with hashes of their own.  The
\* first vertex of a triangle is one of the first two, the second one of
\* the first three: every pattern of equal hashes occurs.
ConstructorVertices ==
    << V3(0, 0, 0), [x |-> OffGrid(0), y |-> R(0), z |-> R(0)],
       V3(1, 0, 0), V3(0, 1, 0) >>

\* A construction changes lastCall only: one that follows a construction
\* reaches no state the first does not reach, and is left out.
NewTriangle(v1, v2, v3) ==
    /\ lastCall.op # "newTriangle"
    /\ lastCall' =
          IF IsDuplicated(v1, v2, v3)
          THEN [op |-> "newTriangle", v1 |-> v1, v2 |-> v2, v3 |-> v3,
                thrown |-> TRUE, triangle |-> undefined]
          ELSE [op |-> "newTriangle", v1 |-> v1, v2 |-> v2, v3 |-> v3,
                thrown |-> FALSE, triangle |-> Tri(v1, v2, v3)]
    /\ UNCHANGED <<nodes, calls, lineVars, boxVars>>

\* addTriangle with the triangle the constructor just returned.
AddConstructed ==
    /\ lastCall.op = "newTriangle" /\ ~lastCall.thrown
    /\ Len(nodes[1].triangles) < MaxConstructed
    /\ AddTriangle(1, lastCall.triangle)

NextTriangle ==
    \/ \E i \in 1..2, j \in 1..3, k \in 1..4 :
          NewTriangle(ConstructorVertices[i], ConstructorVertices[j],
                      ConstructorVertices[k])
    \/ AddConstructed

SpecTriangle == Init /\ [][NextTriangle]_vars

\* The number of distinct hashes among three vertices.
DistinctHashes(v1, v2, v3) ==
    Cardinality({VertexHash(v1), VertexHash(v2), VertexHash(v3)})

\* C12: the constructor throws on three vertices of one hash, so no
\* triangle of a tree has three vertices of one hash; on two vertices of one
\* hash and a third of another it returns the triangle of the vertices.
C12_ConstructorRejectsOneHash ==
    /\ lastCall.op = "newTriangle" =>
          /\ DistinctHashes(lastCall.v1, lastCall.v2, lastCall.v3) = 1
                => lastCall.thrown /\ lastCall.triangle = undefined
          /\ DistinctHashes(lastCall.v1, lastCall.v2, lastCall.v3) = 2
                => /\ ~lastCall.thrown
                   /\ lastCall.triangle
                        = Tri(lastCall.v1, lastCall.v2, lastCall.v3)
    /\ \A n \in 1..Len(nodes) : \A i \in 1..Len(nodes[n].triangles) :
          DistinctHashes(nodes[n].triangles[i].v1, nodes[n].triangles[i].v2,
                         nodes[n].triangles[i].v3) > 1

\* C12 witness: a triangle of two vertices of one hash (of different
\* coordinates) and a third vertex was constructed and inserted.
C12_Witness ==
    /\ lastCall.op = "addTriangle" /\ lastCall.result
    /\ lastCall.triangle.v1 # lastCall.triangle.v2
    /\ VertexHash(lastCall.triangle.v1) = VertexHash(lastCall.triangle.v2)
    /\ DistinctHashes(lastCall.triangle.v1, lastCall.triangle.v2,
                      lastCall.triangle.v3) = 2

\* C23: the bounding box of a node contains every vertex of every triangle
\* the node holds, a vertex with the hash of an earlier vertex of other
\* coordinates as well.
C23_BoxContainsHeldVertices ==
    \A n \in 1..Len(nodes) : \A i \in 1..Len(nodes[n].triangles) :
        \A v \in {nodes[n].triangles[i].v1, nodes[n].triangles[i].v2,
                  nodes[n].triangles[i].v3} :
            isPointInside(v, nodes[n].boundingBox.min, nodes[n].boundingBox.max)

-----------------------------------------------------------------------------
(* Ray queries on small trees: the caller's tree takes up to               *)
(* MaxRayTriangles triangles, is built, and lines through the centroids of *)
(* the triangles are cast on the trees.                                    *)

MaxRayTriangles == 1

\* Triangles in several orientations: in the plane z = 0 (the triangle of
\* the reference ray test), tilted about one axis, in the plane y = 0, and
\* tilted about every axis.
RayTriangles ==
    { Tri(V3(-1, -1, 0), V3(1, -1, 0), V3(0, 1, 0)),
      Tri(V3(0, 0, 0), V3(3, 0, 0), V3(0, 3, 3)),
      Tri(V3(0, 0, 0), V3(3, 0, 0), V3(0, 0, 3)),
      Tri(V3(3, 0, 0), V3(0, 3, 0), V3(0, 0, 3)) }

\* Line directions of rational length: along the axes, in a coordinate
\* plane, and off every axis.
RayDirections ==
    { V3(0, 0, 1), V3(0, 0, -1), V3(1, 0, 0), V3(0, -1, 0),
      V3(3, 4, 0), V3(0, -4, 3),
      V3(2, 2, 1), V3(1, 2, 2), V3(-2, 1, 2), V3(2, -2, -1), V3(2, 3, 6) }

AddRayTriangle(triangle) ==
    /\ Len(nodes[1].triangles) < MaxRayTriangles
    /\ AddTriangle(1, triangle)

\* A line through the centroid of a triangle the caller inserted, cast on a
\* tree the caller holds.  A query changes lastCall only, so a query made right after a
\* query reaches no state a first query does not reach: the first conjunct
\* spares exploring those twice.
CastThroughCentroid(n, triangle, direction, onlyOnLine) ==
    /\ lastCall.op # "getRayCollision"
    /\ nodes[n].parent = NoNode
    /\ GetRayCollision(n, subtract(TriangleCentroid(triangle), direction),
                       add(TriangleCentroid(triangle), direction), onlyOnLine)

NextRay ==
    \/ \E triangle \in RayTriangles : AddRayTriangle(triangle)
    \/ CalculateTree(1)
    \/ \E n \in 1..Len(nodes), i \in 1..Len(nodes[1].triangles),
          direction \in RayDirections, onlyOnLine \in BOOLEAN :
          CastThroughCentroid(n, nodes[1].triangles[i], direction, onlyOnLine)

SpecRay == Init /\ [][NextRay]_vars

\* A triangle of positive area.
NonDegenerate(t) ==
    cross(subtract(t.v2, t.v1), subtract(t.v3, t.v1)) # V3(0, 0, 0)

\* The line p1 -> p2 (p1 # p2) passes through point c.
PassesThrough(p1, p2, c) ==
    cross(subtract(p2, p1), subtract(c, p1)) = V3(0, 0, 0)

\* The line p1 -> p2 is parallel to the plane of triangle t.
ParallelToPlane(t, p1, p2) ==
    dot(subtract(p2, p1),
        cross(subtract(t.v2, t.v1), subtract(t.v3, t.v1))).n = 0

\* The last call was getRayCollision(p1, p2, false) on a tree of the single
\* non-degenerate triangle t (the tree calculateTree returned for it), with
\* a line through the centroid of t that is not parallel to its plane.
CentroidQuery(t) ==
    /\ lastCall.op = "getRayCollision"
    /\ ~lastCall.onlyOnLine
    /\ lastCall.on # 1
    /\ nodes[lastCall.on].triangles = <<t>>
    /\ NonDegenerate(t)
    /\ lastCall.p1 # lastCall.p2
    /\ PassesThrough(lastCall.p1, lastCall.p2, TriangleCentroid(t))
    /\ ~ParallelToPlane(t, lastCall.p1, lastCall.p2)

\* C2, as claimed: on the tree of a single non-degenerate triangle, every
\* line through the centroid that is not parallel to the triangle's plane
\* makes getRayCollision(p1, p2, false) return the centroid.
C2_CentroidLineReturnsCentroid ==
    \A t \in RayTriangles :
        CentroidQuery(t) => lastCall.returned = TriangleCentroid(t)

\* C2, amended: such a line returns the centroid when the box test of the
\* tree passes for it (exactly one of the three casts on the near faces
\* of the triangle's box lands in the box), and nothing otherwise.
C2_CentroidLineReturnsCentroidIfBoxPasses ==
    \A t \in RayTriangles :
        CentroidQuery(t) =>
            IF isRayCollideAABB(nodes[lastCall.on], lastCall.p1, lastCall.p2)
            THEN lastCall.returned = TriangleCentroid(t)
            ELSE lastCall.returned = undefined

\* C2 witness: a line off every axis through the centroid of the triangle
\* tilted about every axis returned the centroid.
C2_Witness ==
    /\ CentroidQuery(Tri(V3(3, 0, 0), V3(0, 3, 0), V3(0, 0, 3)))
    /\ lastCall.p2 = add(lastCall.p1, V3(4, 6, 12))
    /\ lastCall.returned = V3(1, 1, 1)

-----------------------------------------------------------------------------
(* Ray queries on stacked triangles: the caller's tree takes up to         *)
(* MaxStacked triangles that lie above each other, is built, and segments  *)
(* of lines through the centroids are cast on every node.                  *)

MaxStacked == 2

\* The triangle of the reference ray test at three heights.
StackedTriangles ==
    { Tri(V3(-1, -1, 0), V3(1, -1, 0), V3(0, 1, 0)),
      Tri(V3(-1, -1, 2), V3(1, -1, 2), V3(0, 1, 2)),
      Tri(V3(-1, -1, 4), V3(1, -1, 4), V3(0, 1, 4)) }

\* Up, down, and off every axis.
SegmentDirections == {V3(0, 0, 1), V3(0, 0, -1), V3(1, 2, 2)}

\* Where a segment starts, in steps of its direction from the centroid; it
\* is two steps long: -1 has the centroid in the middle, -3 ends short of
\* it, 1 starts past it.
SegmentStarts == {-3, -1, 1}

AddStacked(triangle) ==
    /\ Len(nodes[1].triangles) < MaxStacked
    /\ AddTriangle(1, triangle)

\* A segment of a line through the centroid of a triangle the caller
\* inserted, cast on any node.  A query that follows a query reaches no
\* state the first does not reach, and is left out.
CastSegment(n, triangle, direction, start, onlyOnLine) ==
    /\ lastCall.op # "getRayCollision"
    /\ GetRayCollision(n,
          add(TriangleCentroid(triangle), scale(direction, R(start))),
          add(TriangleCentroid(triangle), scale(direction, R(start + 2))),
          onlyOnLine)

NextHits ==
    \/ \E triangle \in StackedTriangles : AddStacked(triangle)
    \/ CalculateTree(1)
    \/ \E n \in 1..Len(nodes), i \in 1..Len(nodes[1].triangles),
          direction \in SegmentDirections, start \in SegmentStarts,
          onlyOnLine \in BOOLEAN :
          CastSegment(n, nodes[1].triangles[i], direction, start, onlyOnLine)

SpecHits == Init /\ [][NextHits]_vars

\* Point pt lies on the closed segment from p1 to p2 (p1 # p2).
OnSegment(pt, p1, p2) ==
    /\ PassesThrough(p1, p2, pt)
    /\ RLe(dot(subtract(pt, p1), subtract(pt, p2)), R(0))

PassesQuery(t, p1, p2, onlyOnLine) ==
    /\ getPointOnTrianglePlane(t, p1, p2) # undefined
    /\ onlyOnLine => OnSegment(getPointOnTrianglePlane(t, p1, p2), p1, p2)

\* What a query returns on a child of a node, nothing on an absent child.
ChildResult(heap, child, p1, p2, onlyOnLine) ==
    IF child = NoNode THEN undefined
    ELSE getRayCollision(heap, child, p1, p2, onlyOnLine)

\* The square of the distance of two points.
SquaredDistance(a, b) == dot(subtract(a, b), subtract(a, b))

\* C14: on a node whose box test passes, getRayCollision returns, on an
\* internal node, what the left child returns when that is a point and what
\* the right child returns otherwise; on a leaf, the hit of the first
\* triangle of the list that passes, nothing when none passes.
C14_FirstHitPolicy ==
    (/\ lastCall.op = "getRayCollision"
     /\ isRayCollideAABB(nodes[lastCall.on], lastCall.p1, lastCall.p2)) =>
        LET node == nodes[lastCall.on]
            p1 == lastCall.p1
            p2 == lastCall.p2
            passing == {i \in 1..Len(node.triangles) :
                          PassesQuery(node.triangles[i], p1, p2, lastCall.onlyOnLine)}
            first == CHOOSE i \in passing : \A j \in passing : i <= j
            left == ChildResult(nodes, node.leftChild, p1, p2, lastCall.onlyOnLine)
            right == ChildResult(nodes, node.rightChild, p1, p2, lastCall.onlyOnLine)
        IN  IF IsLeaf(node)
            THEN lastCall.returned =
                    IF passing = {} THEN undefined
                    ELSE getPointOnTrianglePlane(node.triangles[first], p1, p2)
            ELSE lastCall.returned = IF left # undefined THEN left ELSE right

\* C14 witness: an internal node returned the point of its left child while
\* its right child has a point nearer to p1.
C14_Witness ==
    /\ lastCall.op = "getRayCollision"
    /\ ~IsLeaf(nodes[lastCall.on])
    /\ LET left == ChildResult(nodes, nodes[lastCall.on].leftChild,
                               lastCall.p1, lastCall.p2, lastCall.onlyOnLine)
           right == ChildResult(nodes, nodes[lastCall.on].rightChild,
                                lastCall.p1, lastCall.p2, lastCall.onlyOnLine)
       IN  /\ left # undefined /\ right # undefined
           /\ lastCall.returned = left
           /\ RLt(SquaredDistance(right, lastCall.p1),
                  SquaredDistance(left, lastCall.p1))

\* C14 witness on a leaf: a tree that was not built returned the hit of its
\* first triangle while a later triangle has a hit nearer to p1.
C14_LeafWitness ==
    /\ lastCall.op = "getRayCollision"
    /\ IsLeaf(nodes[lastCall.on])
    /\ Len(nodes[lastCall.on].triangles) = 2
    /\ LET t == nodes[lastCall.on].triangles
       IN  /\ PassesQuery(t[1], lastCall.p1, lastCall.p2, lastCall.onlyOnLine)
           /\ PassesQuery(t[2], lastCall.p1, lastCall.p2, lastCall.onlyOnLine)
           /\ lastCall.returned
                = getPointOnTrianglePlane(t[1], lastCall.p1, lastCall.p2)
           /\ RLt(SquaredDistance(getPointOnTrianglePlane(t[2], lastCall.p1,
                                                         lastCall.p2), lastCall.p1),
                  SquaredDistance(lastCall.returned, lastCall.p1))

-----------------------------------------------------------------------------
(* The 2D box test: hasBoundingBoxCollision2d called once on a pair of     *)
(* boxes.                                                                  *)

\* The longest side of a box, in units of 5 (the sides of the rotated boxes
\* are multiples of 5, so that their corners are lattice points).
MaxBoxLength == 2

V2(x, y) == [x |-> R(x), y |-> R(y)]

Box2d(anchor, uAxis, lu, lv) ==
    [anchor |-> anchor, uAxis |-> uAxis, length |-> [u |-> R(lu), v |-> R(lv)]]

\* The u-axes: not normalised, along x, along y, rotated, and zero.
UAxes2d == {V2(1, 0), V2(0, 2), V2(3, 4), V2(-4, 3), V2(0, 0)}

\* Gaps below, at and above the tolerance.
Gaps == {Frac(1, 2 * TOLERANCE_DENOMINATOR), Frac(1, TOLERANCE_DENOMINATOR),
         Frac(2, TOLERANCE_DENOMINATOR)}

\* The anchors of B: lattice points on and off the corners and sides of the
\* boxes A.
AnchorsB2d ==
    {V2(0, 0), V2(5, 0), V2(6, 0), V2(10, 0), V2(5, 5), V2(0, 5), V2(3, 4),
     V2(-4, 3), V2(-1, 7), V2(2, 2), V2(4, 2), V2(0, -5), V2(-5, -5),
     V2(20, 20)}

\* The anchors of B a gap beyond the side x = 5 of the boxes A along x.
GapAnchorsB2d == {[x |-> RAdd(R(5), g), y |-> R(0)] : g \in Gaps}

BoxesA2d ==
    {Box2d(V2(0, 0), uAxis, 5 * k, 5) : uAxis \in UAxes2d, k \in 1..MaxBoxLength}

BoxesB2d ==
    {Box2d(anchor, uAxis, 5 * k, 5) :
        anchor \in AnchorsB2d, uAxis \in UAxes2d, k \in 1..MaxBoxLength}
    \cup {Box2d(anchor, uAxis, 5 * k, 5) :
            anchor \in GapAnchorsB2d, uAxis \in {V2(1, 0), V2(0, 2)},
            k \in 1..MaxBoxLength}

InitSAT2d ==
    /\ boxA \in BoxesA2d
    /\ boxB \in BoxesB2d
    /\ includeContating \in BOOLEAN
    /\ collision = undefined
    /\ NoTree /\ NoLines

HasBoundingBoxCollision2d ==
    /\ collision = undefined
    /\ collision' = hasBoundingBoxCollision2d(boxA, boxB, includeContating)
    /\ UNCHANGED <<boxA, boxB, includeContating, bvhVars, lineVars>>

NextSAT2d == HasBoundingBoxCollision2d

SpecSAT2d == InitSAT2d /\ [][NextSAT2d]_vars

-----------------------------------------------------------------------------
(* The rectangles the boxes denote, for the statements about the 2D test.  *)
(* A rectangle is the set of the points o + s * u + t * v with s in        *)
(* [0, lu] and t in [0, lv], u the unit vector of the box's uAxis and v    *)
(* its quarter turn.  Whether two rectangles meet is decided by clipping   *)
(* the sides of one against the other, not by projections on axes.         *)

ValidBox2d(box) == RGt(getSize(WithZ0(box.uAxis)), ZERO_VECTOR_TOLERANCE)

Frame2d(box) ==
    Bound([u \in {normalize(WithZ0(box.uAxis))} |->
        [o |-> WithZ0(box.anchor), u |-> u,
         v |-> [x |-> RNeg(u.y), y |-> u.x, z |-> R(0)],
         lu |-> box.length.u, lv |-> box.length.v]])

FrameCorners(f) ==
    <<f.o,
      add(f.o, scale(f.u, f.lu)),
      add(add(f.o, scale(f.u, f.lu)), scale(f.v, f.lv)),
      add(f.o, scale(f.v, f.lv))>>

FrameCenter(f) ==
    add(f.o, add(scale(f.u, RDiv(f.lu, R(2))), scale(f.v, RDiv(f.lv, R(2)))))

\* The point p lies in the closed rectangle f.
InFrame(f, p) ==
    Bound([st \in {<<dot(subtract(p, f.o), f.u), dot(subtract(p, f.o), f.v)>>} |->
        /\ RLe(R(0), st[1]) /\ RLe(st[1], f.lu)
        /\ RLe(R(0), st[2]) /\ RLe(st[2], f.lv)])

\* The conditions alpha + s * beta >= 0 (> 0 where strict) under which the
\* point a + s * (b - a) of the segment a-b lies in the rectangle f (in its
\* interior where strict).
SegmentConditions(f, a, b, strict) ==
    Bound([c \in {<<dot(subtract(a, f.o), f.u), dot(subtract(b, a), f.u),
           dot(subtract(a, f.o), f.v), dot(subtract(b, a), f.v)>>} |->
        {[alpha |-> R(0), beta |-> R(1), strict |-> FALSE],
         [alpha |-> R(1), beta |-> R(-1), strict |-> FALSE],
         [alpha |-> c[1], beta |-> c[2], strict |-> strict],
         [alpha |-> RSub(f.lu, c[1]), beta |-> RNeg(c[2]), strict |-> strict],
         [alpha |-> c[3], beta |-> c[4], strict |-> strict],
         [alpha |-> RSub(f.lv, c[3]), beta |-> RNeg(c[4]), strict |-> strict]}])

\* Some s satisfies all the conditions: every condition without s holds,
\* and every lower bound on s is below every upper bound.
Satisfiable(conditions) ==
    /\ \A c \in conditions :
          c.beta.n = 0 => IF c.strict THEN c.alpha.n > 0 ELSE c.alpha.n >= 0
    /\ \A lo \in conditions, hi \in conditions :
          (lo.beta.n > 0 /\ hi.beta.n < 0) =>
              IF lo.strict \/ hi.strict
              THEN RLt(RMul(lo.alpha, hi.beta), RMul(hi.alpha, lo.beta))
              ELSE RLe(RMul(lo.alpha, hi.beta), RMul(hi.alpha, lo.beta))

\* A side of the rectangle with corners cs meets the rectangle f (its
\* interior where strict).
SideMeets(cs, f, strict) ==
    \E i \in 1..4 :
        Satisfiable(SegmentConditions(f, cs[i], cs[(i % 4) + 1], strict))

\* The closed rectangles fa and fb share a point.
FramesSharePoint(fa, fb) ==
    \/ SideMeets(FrameCorners(fa), fb, FALSE)
    \/ \E i \in 1..4 : InFrame(fa, FrameCorners(fb)[i])

\* The interiors of the rectangles fa and fb share a point.
FrameInteriorsMeet(fa, fb) ==
    \/ SideMeets(FrameCorners(fa), fb, TRUE)
    \/ InFrame(fa, FrameCenter(fb))

\* The rectangle f grown by a margin on every side.
Grown(f, margin) ==
    [f EXCEPT !.o = subtract(f.o, scale(add(f.u, f.v), margin)),
              !.lu = RAdd(f.lu, RMul(R(2), margin)),
              !.lv = RAdd(f.lv, RMul(R(2), margin))]

RectanglesSharePoint(a, b) ==
    \E fa \in {Frame2d(a)}, fb \in {Frame2d(b)} : FramesSharePoint(fa, fb)

RectanglesSharePointWithin(a, b, margin) ==
    \E fa \in {Frame2d(a)}, fb \in {Grown(Frame2d(b), margin)} :
        FramesSharePoint(fa, fb)

\* The rectangles share a point and no interior point.
RectanglesTouch(a, b) ==
    \E fa \in {Frame2d(a)}, fb \in {Frame2d(b)} :
        FramesSharePoint(fa, fb) /\ ~FrameInteriorsMeet(fa, fb)

\* The test was called on two boxes it accepts.
Tested2d == collision # undefined /\ ValidBox2d(boxA) /\ ValidBox2d(boxB)

\* The interval [min, max] of the corners of the rectangle f along the unit
\* vector w.
Extent(f, w) ==
    Bound([ts \in {{dot(FrameCorners(f)[i], w) : i \in 1..4}} |->
        <<CHOOSE t \in ts : \A t2 \in ts : RLe(t, t2),
          CHOOSE t \in ts : \A t2 \in ts : RLe(t2, t)>>])

\* How far the second interval lies beyond the first, or the first beyond
\* the second: positive when the intervals are disjoint.
GapBetween(ea, eb) == RMax(RSub(eb[1], ea[2]), RSub(ea[1], eb[2]))

\* The gaps of the rectangles of the two boxes along the axes uA, vA, uB, vB.
AxisGaps(a, b) ==
    Bound([f \in {<<Frame2d(a), Frame2d(b)>>} |->
        {GapBetween(Extent(f[1], w), Extent(f[2], w)) :
            w \in {f[1].u, f[1].v, f[2].u, f[2].v}}])

\* C3: with includeContating = true, the 2D test of two boxes with u-axes
\* longer than 1e-6 reports a collision exactly when none of the four axes
\* uA, vA, uB, vB separates the corner intervals by more than 1e-6; it
\* reports one whenever the closed rectangles share a point, and only when
\* they share a point after one of them is grown by 1e-6 on every side.
C3_CollisionIffRectanglesMeet ==
    (Tested2d /\ includeContating) =>
        /\ collision.result =
              (\A g \in AxisGaps(boxA, boxB) : RLe(g, COLLISION_TOLERANCE))
        /\ RectanglesSharePoint(boxA, boxB) => collision.result
        /\ collision.result =>
              RectanglesSharePointWithin(boxA, boxB, COLLISION_TOLERANCE)

\* The test reported a collision of a rotated and an axis-aligned box that
\* share a point.
C3_Witness ==
    /\ Tested2d /\ includeContating
    /\ boxA.uAxis = V2(3, 4) /\ boxB.uAxis = V2(1, 0)
    /\ RectanglesSharePoint(boxA, boxB)
    /\ collision.result

\* C4: two boxes that touch exactly (their rectangles share a point, their
\* interiors none) collide when includeContating = true and do not when it
\* is false.
C4_TouchingFollowsFlag ==
    (Tested2d /\ RectanglesTouch(boxA, boxB)) =>
        collision.result = includeContating

\* The test denied the collision of a rotated box and an axis-aligned box
\* that touch at a corner, contacts being excluded.
C4_Witness ==
    /\ Tested2d /\ ~includeContating
    /\ boxA.uAxis = V2(3, 4) /\ boxB.uAxis = V2(1, 0)
    /\ boxB.anchor = V2(3, 4)
    /\ RectanglesTouch(boxA, boxB)
    /\ ~collision.result

AxisAligned2d(box) == ValidBox2d(box) /\ (box.uAxis.x.n = 0 \/ box.uAxis.y.n = 0)

\* The gaps of two axis-aligned boxes along x and along y.
AlignedGaps(a, b) ==
    Bound([f \in {<<Frame2d(a), Frame2d(b)>>} |->
        {GapBetween(Extent(f[1], w), Extent(f[2], w)) :
            w \in {V3(1, 0, 0), V3(0, 1, 0)}}])

\* C5 as stated: two axis-aligned boxes with a positive gap along x or y do
\* not collide, however small the gap, whatever includeContating is.
C5_AnyPositiveGapSeparates ==
    (/\ collision # undefined
     /\ AxisAligned2d(boxA) /\ AxisAligned2d(boxB)
     /\ \E g \in AlignedGaps(boxA, boxB) : g.n > 0)
        => ~collision.result

\* C5 as the test decides: two axis-aligned boxes do not collide when a gap
\* along x or y exceeds 1e-6, nor, contacts being excluded, when a gap is
\* positive; contacts being included, they collide when no gap exceeds 1e-6.
C5_GapBeyondToleranceSeparates ==
    (collision # undefined /\ AxisAligned2d(boxA) /\ AxisAligned2d(boxB)) =>
        /\ (\E g \in AlignedGaps(boxA, boxB) : RGt(g, COLLISION_TOLERANCE))
              => ~collision.result
        /\ (~includeContating /\ \E g \in AlignedGaps(boxA, boxB) : g.n > 0)
              => ~collision.result
        /\ (includeContating
              /\ \A g \in AlignedGaps(boxA, boxB) : RLe(g, COLLISION_TOLERANCE))
              => collision.result

\* The test denied the collision of two axis-aligned boxes 2e-6 apart along
\* x, contacts being included.
C5_Witness ==
    /\ collision # undefined /\ includeContating
    /\ AxisAligned2d(boxA) /\ AxisAligned2d(boxB)
    /\ Frac(2, TOLERANCE_DENOMINATOR) \in AlignedGaps(boxA, boxB)
    /\ ~collision.result

-----------------------------------------------------------------------------
(* The line intersection: getIntersection called once on a pair of lines.  *)

\* The longest line, in multiples of its direction.
MaxLineLength == 2

Line(p0, p1) == [p0 |-> p0, p1 |-> p1]

\* Directions of rational length: along the axes, in the XY plane, out of
\* it, and the zero direction of a degenerate line.
LineDirections ==
    {V3(1, 0, 0), V3(0, 1, 0), V3(0, 0, 1), V3(3, 4, 0), V3(-4, 3, 0),
     V3(3, 4, 12), V3(0, 0, 0)}

\* A height below the tolerance.
BelowTolerance == Frac(1, 2 * TOLERANCE_DENOMINATOR)

\* The start points of li1: on and off the lines li0, and lifted off them by
\* less than the tolerance.
LineAnchors ==
    {V3(0, 0, 0), V3(1, 0, 0), V3(3, 0, 0), V3(0, 4, 0), V3(3, 4, 0),
     V3(6, 8, 0), V3(0, 0, 12), V3(3, 4, 12), V3(-1, 0, 1)}
    \cup {[x |-> R(0), y |-> R(-1), z |-> BelowTolerance],
          [x |-> R(3), y |-> R(4), z |-> BelowTolerance]}

LinesFrom(anchors) ==
    {Line(a, add(a, scale(d, R(k)))) :
        a \in anchors, d \in LineDirections, k \in 1..MaxLineLength}

InitLine ==
    /\ li0 \in LinesFrom({V3(0, 0, 0)})
    /\ li1 \in LinesFrom(LineAnchors)
    /\ fromExtended \in BOOLEAN
    /\ intersection = undefined
    /\ NoTree /\ NoBoxes

GetIntersection ==
    /\ intersection = undefined
    /\ intersection' = getIntersection(li0, li1, fromExtended)
    /\ UNCHANGED <<li0, li1, fromExtended, bvhVars, boxVars>>

NextLine == GetIntersection

SpecLine == InitLine /\ [][NextLine]_vars

-----------------------------------------------------------------------------
(* The lines as point sets, for the statements about getIntersection.      *)

DirectionOf(li) == subtract(li.p1, li.p0)

\* The common normal of the two lines: zero when a line is degenerate or
\* the lines are parallel.
CommonNormal(l0, l1) == cross(DirectionOf(l0), DirectionOf(l1))

IsZero(v) == v.x.n = 0 /\ v.y.n = 0 /\ v.z.n = 0

Parallel(l0, l1) ==
    /\ ~IsZero(DirectionOf(l0)) /\ ~IsZero(DirectionOf(l1))
    /\ IsZero(CommonNormal(l0, l1))

Coplanar(l0, l1) == dot(subtract(l1.p0, l0.p0), CommonNormal(l0, l1)).n = 0

\* The lines are not parallel and meet, hence in exactly one point.
MeetInOnePoint(l0, l1) == ~IsZero(CommonNormal(l0, l1)) /\ Coplanar(l0, l1)

\* The parameters of the meeting point on l0 and on l1 (0 at p0, 1 at p1).
MeetingParameter(l0, l1) ==
    Bound([n \in {CommonNormal(l0, l1)} |->
        RDiv(dot(cross(subtract(l1.p0, l0.p0), DirectionOf(l1)), n), dot(n, n))])

MeetingPoint(l0, l1) ==
    add(l0.p0, scale(DirectionOf(l0), MeetingParameter(l0, l1)))

\* |v| <= 1e-6, decided on v / 1e-6.
WithinTolerance(v) ==
    /\ \A c \in {v.x, v.y, v.z} : RLe(RAbs(c), TOLERANCE_LINE_EVALUATION)
    /\ Bound([w \in {scale(v, R(TOLERANCE_DENOMINATOR))} |-> RLe(dot(w, w), R(1))])

\* The parameter on the line li of the point of li nearest to p.
ParameterOf(li, p) ==
    RDiv(dot(subtract(p, li.p0), DirectionOf(li)),
         dot(DirectionOf(li), DirectionOf(li)))

\* p lies on the infinite line li within 1e-6.
OnLineWithinTolerance(li, p) ==
    WithinTolerance(
        subtract(p, add(li.p0, scale(DirectionOf(li), ParameterOf(li, p)))))

InSegmentRange(t) ==
    /\ RLe(RNeg(TOLERANCE_LINE_EVALUATION), t)
    /\ RLe(t, RAdd(R(1), TOLERANCE_LINE_EVALUATION))

\* The lines are not parallel and more than 1e-6 apart: with n their common
\* normal and w a vector from one to the other, |w . n| > 1e-6 * |n|.
SkewBeyondTolerance(l0, l1) ==
    /\ ~IsZero(CommonNormal(l0, l1))
    /\ Bound([nh \in {<<CommonNormal(l0, l1),
              RAbs(dot(subtract(l1.p0, l0.p0), CommonNormal(l0, l1)))>>} |->
          \/ RGt(nh[2], RMul(RAdd(RAdd(RAbs(nh[1].x), RAbs(nh[1].y)), RAbs(nh[1].z)),
                             TOLERANCE_LINE_EVALUATION))
          \/ Bound([h \in {RMul(nh[2], R(TOLERANCE_DENOMINATOR))} |->
                 RGt(RMul(h, h), dot(nh[1], nh[1]))])])

\* C7: for two non-parallel lines that meet in one point, getIntersection
\* returns result true with that point (within 1e-6) when fromExtended is
\* true, and when it is false and the point lies within both segments.
C7_MeetingLinesIntersect ==
    (/\ intersection # undefined
     /\ MeetInOnePoint(li0, li1)
     /\ \/ fromExtended
        \/ /\ InSegmentRange(MeetingParameter(li0, li1))
           /\ InSegmentRange(MeetingParameter(li1, li0)))
        => /\ intersection.result
           /\ WithinTolerance(subtract(intersection.pt, MeetingPoint(li0, li1)))

-----------------------------------------------------------------------------
(* The 3D box test: hasBoundingBoxCollision3d called once on a pair of     *)
(* boxes.                                                                  *)

\* The box with the given centre, axes and lengths: its anchor is the
\* corner opposite to the directions u, v and n = u x v.
Box3d(center, uAxis, vAxis, lu, lv, ln) ==
    LET u == normalize(uAxis)
        v == normalize(vAxis)
        n == normalize(cross(u, v))
        half == [n |-> 1, d |-> 2]
        diagonal == add(add(scale(u, R(lu)), scale(v, R(lv))), scale(n, R(ln)))
    IN  [anchor |-> subtract(center, scale(diagonal, half)),
         uAxis |-> uAxis, vAxis |-> vAxis,
         length |-> [u |-> R(lu), v |-> R(lv), n |-> R(ln)]]

\* The pairs <<uAxis, vAxis>>: aligned with the axes, rolled about x, rolled
\* about y, turned about z, with a zero axis, and not perpendicular.
Orientations3d ==
    {<<V3(1, 0, 0), V3(0, 1, 0)>>, <<V3(1, 0, 0), V3(0, 3, 4)>>,
     <<V3(0, 1, 0), V3(3, 0, 4)>>, <<V3(3, 4, 0), V3(-4, 3, 0)>>,
     <<V3(0, 0, 0), V3(0, 1, 0)>>, <<V3(1, 0, 0), V3(3, 4, 0)>>}

\* The centres of B; A is centred at the origin.
CentersB3d ==
    {V3(0, 0, 0), V3(0, 0, 5), V3(0, 0, 8), V3(0, 0, 12), V3(5, 0, 0),
     V3(6, 0, 0), V3(20, 20, 20)}

BoxesAt(centers) ==
    {Box3d(c, o[1], o[2], 5 * k, 5, 5) :
        c \in centers, o \in Orientations3d, k \in 1..MaxBoxLength}

InitSAT3d ==
    /\ boxA \in BoxesAt({V3(0, 0, 0)})
    /\ boxB \in BoxesAt(CentersB3d)
    /\ includeContating \in BOOLEAN
    /\ collision = undefined
    /\ NoTree /\ NoLines

HasBoundingBoxCollision3d ==
    /\ collision = undefined
    /\ collision' = hasBoundingBoxCollision3d(boxA, boxB, includeContating)
    /\ UNCHANGED <<boxA, boxB, includeContating, bvhVars, lineVars>>

NextSAT3d == HasBoundingBoxCollision3d

SpecSAT3d == InitSAT3d /\ [][NextSAT3d]_vars

-----------------------------------------------------------------------------
(* The cuboids the 3D boxes denote, for the statements about the 3D test.  *)

\* The box passes the validation of the test: axes longer than 1e-6 and
\* perpendicular.
ValidBox3d(box) ==
    /\ RGt(getSize(box.uAxis), ZERO_VECTOR_TOLERANCE)
    /\ RGt(getSize(box.vAxis), ZERO_VECTOR_TOLERANCE)
    /\ RLt(RAbs(dot(normalize(box.uAxis), normalize(box.vAxis))),
           UNIT_VECTOR_TOLERANCE)

Tested3d == collision # undefined /\ ValidBox3d(boxA) /\ ValidBox3d(boxB)

\* The unit vectors u, v, n = u x v of a cuboid.
EdgeDirections(box) ==
    Bound([uv \in {<<normalize(box.uAxis), normalize(box.vAxis)>>} |->
        <<uv[1], uv[2], cross(uv[1], uv[2])>>])

\* The corners of a cuboid: anchor + a * lu * u + b * lv * v + c * ln * n
\* with a, b, c in {0, 1}.
CuboidCorners(box) ==
    Bound([e \in {EdgeDirections(box)} |->
        {add(box.anchor,
             add(scale(e[1], RMul(R(a), box.length.u)),
                 add(scale(e[2], RMul(R(b), box.length.v)),
                     scale(e[3], RMul(R(c), box.length.n))))) :
            a \in {0, 1}, b \in {0, 1}, c \in {0, 1}}])

\* The directions that decide whether two cuboids are disjoint: the three
\* edge directions of each and the nine cross products of an edge direction
\* of one with an edge direction of the other.  None is longer than 1.
SeparatingCandidates(a, b) ==
    Bound([e \in {<<EdgeDirections(a), EdgeDirections(b)>>} |->
        {w \in {e[1][i] : i \in 1..3} \cup {e[2][i] : i \in 1..3}
               \cup {cross(e[1][i], e[2][j]) : i \in 1..3, j \in 1..3} :
            ~(w.x.n = 0 /\ w.y.n = 0 /\ w.z.n = 0)}])

\* The corners of the two cuboids lie more than the tolerance apart along
\* the direction w: the cuboids are disjoint.
SeparatedAlong(w, cornersA, cornersB) ==
    \/ \A p \in cornersA, q \in cornersB :
          RGt(RSub(dot(q, w), dot(p, w)), COLLISION_TOLERANCE)
    \/ \A p \in cornersA, q \in cornersB :
          RGt(RSub(dot(p, w), dot(q, w)), COLLISION_TOLERANCE)

CuboidsDisjoint(a, b) ==
    \E ca \in {CuboidCorners(a)}, cb \in {CuboidCorners(b)} :
        \E w \in SeparatingCandidates(a, b) : SeparatedAlong(w, ca, cb)

\* C6: the 3D test reports a collision of two boxes it accepts only when
\* they share a point (up to 1e-6): never for two disjoint cuboids, in
\* whatever orientation.
C6_DisjointCuboidsDoNotCollide ==
    (Tested3d /\ CuboidsDisjoint(boxA, boxB)) => ~collision.result


-----------------------------------------------------------------------------
(* The validation of the box tests: each test called once on a pair of     *)
(* boxes whose axes are regular, zero, at and just above the tolerance,    *)
(* not perpendicular, or too long for their square to be a finite number.  *)

\* A multiple of the tolerance 1e-6.
Tolerances(num, den) == Frac(num, den * TOLERANCE_DENOMINATOR)

\* u-axes of the 2D boxes: regular; zero; of length 1e-6 along x and
\* rotated; of length 2e-6; of length 1e200.
ValidationAxes2d ==
    { V2(1, 0), V2(3, 4), V2(0, 0),
      [x |-> Tolerances(1, 1), y |-> R(0)],
      [x |-> Tolerances(3, 5), y |-> Tolerances(4, 5)],
      [x |-> Tolerances(2, 1), y |-> R(0)],
      [x |-> Huge, y |-> R(0)] }

\* Pairs <<uAxis, vAxis>> of the 3D boxes: regular; with a zero axis; with
\* an axis of length 1e-6, of length 2e-6, of length 1e200; not
\* perpendicular.
ValidationAxes3d ==
    { <<V3(1, 0, 0), V3(0, 1, 0)>>, <<V3(1, 0, 0), V3(0, 3, 4)>>,
      <<V3(0, 0, 0), V3(0, 1, 0)>>, <<V3(1, 0, 0), V3(0, 0, 0)>>,
      <<[x |-> Tolerances(1, 1), y |-> R(0), z |-> R(0)], V3(0, 1, 0)>>,
      <<V3(1, 0, 0), [x |-> R(0), y |-> Tolerances(3, 5), z |-> Tolerances(4, 5)]>>,
      <<V3(1, 0, 0), [x |-> R(0), y |-> Tolerances(2, 1), z |-> R(0)]>>,
      <<[x |-> Huge, y |-> R(0), z |-> R(0)], V3(0, 1, 0)>>,
      <<V3(1, 0, 0), V3(3, 4, 0)>>, <<V3(1, 0, 0), V3(-3, 4, 0)>> }

\* Box B lies on box A or far from it.
ValidationPlaces == {0, 20}

Is3d(box) == "vAxis" \in DOMAIN box

InitValidation ==
    /\ \/ /\ boxA \in {Box2d(V2(0, 0), uAxis, 5, 5) : uAxis \in ValidationAxes2d}
          /\ boxB \in {Box2d(V2(at, at), uAxis, 5, 5) :
                          at \in ValidationPlaces, uAxis \in ValidationAxes2d}
       \/ /\ boxA \in {Box3d(V3(0, 0, 0), o[1], o[2], 5, 5, 5) :
                          o \in ValidationAxes3d}
          /\ boxB \in {Box3d(V3(at, at, at), o[1], o[2], 5, 5, 5) :
                          at \in ValidationPlaces, o \in ValidationAxes3d}
    /\ includeContating \in BOOLEAN
    /\ collision = undefined
    /\ NoTree /\ NoLines

NextValidation ==
    \/ ~Is3d(boxA) /\ HasBoundingBoxCollision2d
    \/ Is3d(boxA) /\ HasBoundingBoxCollision3d

SpecValidation == InitValidation /\ [][NextValidation]_vars

\* A vector with a coordinate of 1e200 (the other ones are 0).
Overlong(v) == Huge \in {v.x, v.y, v.z}

\* |v| <= 1e-6.
AtMostTolerance(v) == ~Overlong(v) /\ WithinTolerance(v)

\* The unit vector along v, the zero vector for the zero vector.
UnitAlong(v) ==
    IF Overlong(v)
    THEN [x |-> IF v.x = Huge THEN R(1) ELSE R(0),
          y |-> IF v.y = Huge THEN R(1) ELSE R(0),
          z |-> IF v.z = Huge THEN R(1) ELSE R(0)]
    ELSE normalize(v)

\* The validation as the statements about it describe it: a u-axis (in 3D
\* also a v-axis) of length <= 1e-6, or in 3D unit axes u and v of a box
\* with |u . v| >= 1e-6.
ValidationFails2d ==
    \E box \in {boxA, boxB} : AtMostTolerance(WithZ0(box.uAxis))

ValidationFails3d ==
    \E box \in {boxA, boxB} :
        \/ AtMostTolerance(box.uAxis)
        \/ AtMostTolerance(box.vAxis)
        \/ RGe(RAbs(dot(UnitAlong(box.uAxis), UnitAlong(box.vAxis))),
               UNIT_VECTOR_TOLERANCE)

ValidationFails == IF Is3d(boxA) THEN ValidationFails3d ELSE ValidationFails2d

\* C15: a box test returns hasError true exactly when the validation fails,
\* and then with result false and a message; for boxes that pass the
\* validation hasError is not true.
C15_ErrorIffValidationFails ==
    collision # undefined =>
        /\ collision.hasError <=> ValidationFails
        /\ ValidationFails =>
              ~collision.result /\ collision.message # noMessage

\* The axes a test projects on and the corners it projects.
TestedAxes == IF Is3d(boxA) THEN Axes3d(boxA, boxB) ELSE Axes2d(boxA, boxB)
TestedCorners ==
    IF Is3d(boxA) THEN Corners3d(boxA) \o Corners3d(boxB)
    ELSE Corners2d(boxA) \o Corners2d(boxB)

\* The test went on to the axes, and the projection of a corner on one of
\* them is missing.
ProjectionMissing ==
    /\ collision # undefined
    /\ Len(collision.args) > 0
    /\ \E i \in 1..Len(TestedAxes), j \in 1..Len(TestedCorners) :
          getFootPointOnDirection(TestedAxes[i], TestedCorners[j]) = undefined

\* C16: a box test that misses the projection of a corner on an axis
\* returns hasError true.
C16_MissingProjectionReportsError ==
    ProjectionMissing => collision.hasError


-----------------------------------------------------------------------------
(* The foot points: getFootPointOnLine and getFootPointOnDirection, each   *)
(* called on lines and directions of unit length, of other lengths, of     *)
(* length 1e-6 and shorter, and on points on and off them.                 *)

\* Directions of rational length: unit, longer, shorter, reversed, of length
\* 1e-6, of half that length, zero.
FootDirections ==
    { V3(1, 0, 0), V3(2, 0, 0), V3(-2, 0, 0), V3(3, 4, 0), V3(1, 2, 2),
      [x |-> Frac(1, 2), y |-> R(0), z |-> R(0)],
      [x |-> Tolerances(1, 1), y |-> R(0), z |-> R(0)],
      [x |-> Tolerances(3, 10), y |-> Tolerances(4, 10), z |-> R(0)],
      V3(0, 0, 0) }

FootAnchors == {V3(0, 0, 0), V3(1, 2, 3), V3(-1, 0, 2)}

PointsToProject == {V3(1, 1, 1), V3(3, 4, 0), V3(-2, 5, 1)}

GetFootPointOnLine(line, point) ==
    /\ lastCall' = [op |-> "getFootPointOnLine", line |-> line, point |-> point,
                    foot |-> getFootPointOnLine(line, point)]
    /\ UNCHANGED <<nodes, calls, lineVars, boxVars>>

GetFootPointOnDirection(direction, point) ==
    /\ lastCall' = [op |-> "getFootPointOnDirection", direction |-> direction,
                    point |-> point,
                    foot |-> getFootPointOnDirection(direction, point)]
    /\ UNCHANGED <<nodes, calls, lineVars, boxVars>>

InitFoot == NoTree /\ NoLines /\ NoBoxes

NextFoot ==
    \/ \E p0 \in FootAnchors, direction \in FootDirections :
          \E point \in PointsToProject \cup {p0, add(p0, direction)} :
              GetFootPointOnLine(Line(p0, add(p0, direction)), point)
    \/ \E direction \in FootDirections :
          \E point \in PointsToProject \cup {direction} :
              GetFootPointOnDirection(direction, point)

SpecFoot == InitFoot /\ [][NextFoot]_vars

\* |v| < 1e-6.
ShorterThanTolerance(v) ==
    /\ \A c \in {v.x, v.y, v.z} : RLt(RAbs(c), TOLERANCE_LINE_EVALUATION)
    /\ Bound([w \in {scale(v, R(TOLERANCE_DENOMINATOR))} |-> RLt(dot(w, w), R(1))])

\* getParameterOnLine(p0, p1, point).  The parameter of a point on a line
\* is that of the magnified point on the magnified line; a line of a length
\* around the tolerance, whose squared length is no number of the model, is
\* magnified about p0 by 1e6.
ParameterOnLine(line, point) ==
    LET direction == subtract(line.p1, line.p0)
        magnify == R(TOLERANCE_DENOMINATOR)
    IN  IF \A c \in {direction.x, direction.y, direction.z} :
                RLe(RAbs(c), TOLERANCE_LINE_EVALUATION)
        THEN getParameterOnLine(V3(0, 0, 0), scale(direction, magnify),
                                scale(subtract(point, line.p0), magnify))
        ELSE getParameterOnLine(line.p0, line.p1, point)

C18_DirectionAsLineFromOrigin ==
    lastCall.op = "getFootPointOnDirection" =>
        LET direction == lastCall.direction
            point == lastCall.point
            foot == lastCall.foot
            onLine == getFootPointOnLine(Line(V3(0, 0, 0), direction), point)
        IN  IF ShorterThanTolerance(direction) THEN foot = undefined
            ELSE /\ foot # undefined /\ onLine # undefined
                 /\ foot.pt = onLine.pt
                 /\ foot.t = onLine.t
                 /\ (point = direction => foot.t = R(1))


-----------------------------------------------------------------------------
(* The vertex hash: getHash and equals on two vertices whose coordinates   *)
(* are tenths of the grid resolution around 0, on the grid, between its    *)
(* points and half way between them.                                       *)

\* The coordinates reach from -MaxTenths to MaxTenths tenths of 1e-6.
MaxTenths == 6

HashCoordinates == {Frac(k, 10 * PRECISION) : k \in -MaxTenths..MaxTenths}

HashVertices ==
    {[x |-> x, y |-> y, z |-> R(0)] :
        x \in HashCoordinates, y \in {R(0), Frac(4, 10 * PRECISION)}}

\* Vertex3dWrapped.equals.
equals(v, w) == VertexHash(v) = VertexHash(w)

Equals(v, w) ==
    /\ lastCall.op # "equals"
    /\ lastCall' = [op |-> "equals", v |-> v, w |-> w,
                    hashOfV |-> VertexHash(v), hashOfW |-> VertexHash(w),
                    equals |-> equals(v, w)]
    /\ UNCHANGED <<nodes, calls, lineVars, boxVars>>

InitHash == NoTree /\ NoLines /\ NoBoxes

NextHash == \E v \in HashVertices, w \in HashVertices : Equals(v, w)

SpecHash == InitHash /\ [][NextHash]_vars

\* Every coordinate of v differs from that of w by less than 1e-6.
WithinResolution(v, w) ==
    /\ RLt(RAbs(RSub(v.x, w.x)), Frac(1, PRECISION))
    /\ RLt(RAbs(RSub(v.y, w.y)), Frac(1, PRECISION))
    /\ RLt(RAbs(RSub(v.z, w.z)), Frac(1, PRECISION))

\* C19 as stated: two vertices whose coordinates all differ by less than
\* 1e-6 have equal hashes and are equal.
C19_NearVerticesAreIdentical ==
    (lastCall.op = "equals" /\ WithinResolution(lastCall.v, lastCall.w)) =>
        lastCall.equals /\ lastCall.hashOfV = lastCall.hashOfW

\* C19, amended: two vertices are equal exactly when their hashes are, and
\* then every coordinate of one differs from that of the other by less than
\* 1e-6; the hashes of two vertices whose coordinates all differ by less
\* than 1e-6 are the same or differ by one grid step in a coordinate.
C19_IdenticalVerticesAreNear ==
    lastCall.op = "equals" =>
        /\ lastCall.equals <=> lastCall.hashOfV = lastCall.hashOfW
        /\ lastCall.equals => WithinResolution(lastCall.v, lastCall.w)
        /\ WithinResolution(lastCall.v, lastCall.w) =>
              \A i \in 1..3 :
                  IAbs(lastCall.hashOfV[i] - lastCall.hashOfW[i]) <= 1

\* Two vertices of other coordinates were equal.
C19_Witness ==
    /\ lastCall.op = "equals"
    /\ lastCall.equals
    /\ lastCall.v.x # lastCall.w.x
    /\ lastCall.v.y # lastCall.w.y


-----------------------------------------------------------------------------
(* The tree with its queries: addTriangle called on the caller's tree, and *)
(* calculateTree, getAllNodes, getAllBoundingBoxes, getRoot and            *)
(* getRayCollision called on any node.                                     *)

GetAllNodes(n) ==
    /\ lastCall' = [op |-> "getAllNodes", on |-> n,
                    returned |-> getAllNodes(nodes, n)]
    /\ UNCHANGED <<nodes, calls, lineVars, boxVars>>

GetAllBoundingBoxes(n) ==
    /\ lastCall' = [op |-> "getAllBoundingBoxes", on |-> n,
                    returned |-> getAllBoundingBoxes(nodes, n)]
    /\ UNCHANGED <<nodes, calls, lineVars, boxVars>>

GetRoot(n) ==
    /\ lastCall' = [op |-> "getRoot", on |-> n, returned |-> getRoot(nodes, n)]
    /\ UNCHANGED <<nodes, calls, lineVars, boxVars>>

\* The directions of the lines cast: along z, and one that passes from the
\* centroid of the third triangle of the pool, on the top of the box of the
\* first and the third, through the edge x = 0, z = 0 of that box.
QueryDirections == {V3(0, 0, 1), V3(10, 9, 90)}

\* Where a line starts, in steps of its direction from the centroid; it is
\* two steps long: -1 has the centroid in the middle, 1 starts past it (the
\* lines along z only).
QueryStarts(direction) == IF direction = V3(0, 0, 1) THEN {-1, 1} ELSE {-1}

\* A line through the centroid of a triangle, cast on node n.
CastThrough(n, triangle, direction, start) ==
    GetRayCollision(n,
        add(TriangleCentroid(triangle), scale(direction, R(start))),
        add(TriangleCentroid(triangle), scale(direction, R(start + 2))),
        FALSE)

\* A query changes lastCall only, and no call reads lastCall: a call made
\* right after a query reaches no state that the same call made in place of
\* the query does not reach, and is left out.
NoQueryBefore ==
    lastCall.op \notin {"getAllNodes", "getAllBoundingBoxes", "getRoot",
                        "getRayCollision"}

\* The callers enumerate from any node and ask any node for its root; they
\* build and cast lines on the tree they filled and on the roots
\* calculateTree returned.
NextQueries ==
    \/ \E i \in 1..NumTriangles : NoQueryBefore /\ AddTriangle(1, TrianglePool[i])
    \/ \E n \in 1..Len(nodes) :
          NoQueryBefore /\ nodes[n].parent = NoNode /\ CalculateTree(n)
    \/ \E n \in 1..Len(nodes) : NoQueryBefore /\ GetAllNodes(n)
    \/ \E n \in 1..Len(nodes) : NoQueryBefore /\ GetAllBoundingBoxes(n)
    \/ \E n \in 1..Len(nodes) : NoQueryBefore /\ GetRoot(n)
    \/ \E n \in 1..Len(nodes), i \in 1..Len(nodes[1].triangles),
          direction \in QueryDirections :
          \E start \in QueryStarts(direction) :
              /\ NoQueryBefore
              /\ nodes[n].parent = NoNode
              /\ CastThrough(n, nodes[1].triangles[i], direction, start)

SpecQueries == Init /\ [][NextQueries]_vars

\* The calls that enumerate or query.
Queries == {"getAllNodes", "getAllBoundingBoxes", "getRoot", "getRayCollision"}

\* C21: getAllNodes, getAllBoundingBoxes, getRoot and getRayCollision change
\* no node; calculateTree changes no node that existed before the call, and
\* the nodes it allocates link to each other only; a second
\* getAllBoundingBoxes on the same node returns the boxes of the first.
C21_QueriesAndBuildAreReadOnly ==
    [][/\ lastCall'.op \in Queries => nodes' = nodes
       /\ lastCall'.op = "getAllBoundingBoxes" =>
             getAllBoundingBoxes(nodes', lastCall'.on) = lastCall'.returned
       /\ (lastCall'.op = "calculateTree" /\ calls' = calls + 1) =>
             /\ Len(nodes') >= Len(nodes)
             /\ SubSeq(nodes', 1, Len(nodes)) = nodes
             /\ \A m \in (Len(nodes) + 1)..Len(nodes') :
                   {nodes'[m].leftChild, nodes'[m].rightChild, nodes'[m].parent}
                       \subseteq {NoNode} \cup (Len(nodes) + 1)..Len(nodes')
      ]_vars

\* C21 witness: getAllBoundingBoxes has returned the boxes of a built tree of
\* three triangles.
C21_Witness ==
    /\ lastCall.op = "getAllBoundingBoxes"
    /\ ~IsLeaf(nodes[lastCall.on])
    /\ nodes[lastCall.on].parent = NoNode
    /\ Len(nodes[lastCall.on].triangles) = 3
    /\ Len(lastCall.returned) = 5


\* The leaves below node n that a query reaches: the box test passes on
\* every node from n to the leaf.
RECURSIVE ReachedLeaves(_, _, _, _)
ReachedLeaves(heap, n, p1, p2) ==
    IF n = NoNode THEN {}
    ELSE IF ~isRayCollideAABB(heap[n], p1, p2) THEN {}
    ELSE IF IsLeaf(heap[n]) THEN {n}
    ELSE ReachedLeaves(heap, heap[n].leftChild, p1, p2)
             \cup ReachedLeaves(heap, heap[n].rightChild, p1, p2)

\* The triangle-level hits of the line on the triangles of the given leaves.
HitsOn(heap, leaves, p1, p2) ==
    UNION {{getPointOnTrianglePlane(heap[l].triangles[i], p1, p2) :
               i \in 1..Len(heap[l].triangles)} : l \in leaves} \ {undefined}

\* C22 as stated: on the root of a built tree, getRayCollision(p1, p2, false)
\* returns a point when a triangle of the tree passes the triangle-level
\* test, and a point it returns is the hit of a triangle of a leaf.
C22_PruningLosesNoHit ==
    (/\ lastCall.op = "getRayCollision"
     /\ nodes[lastCall.on].parent = NoNode /\ lastCall.on # 1) =>
        LET all == HitsOn(nodes, LeavesOf(nodes, lastCall.on),
                          lastCall.p1, lastCall.p2)
        IN  /\ all # {} => lastCall.returned # undefined
            /\ lastCall.returned # undefined => lastCall.returned \in all

\* C22, amended: on any node, getRayCollision(p1, p2, false) returns a point
\* exactly when a triangle that passes the triangle-level test is held by a
\* leaf the query reaches (the box test passes on every node from the
\* receiver to the leaf), and the point is the hit of a triangle of such a
\* leaf.
C22_PruningLosesNoReachedHit ==
    lastCall.op = "getRayCollision" =>
        LET reached == HitsOn(nodes,
                              ReachedLeaves(nodes, lastCall.on,
                                            lastCall.p1, lastCall.p2),
                              lastCall.p1, lastCall.p2)
        IN  /\ reached # {} <=> lastCall.returned # undefined
            /\ lastCall.returned # undefined => lastCall.returned \in reached

\* C22 witness: on the root of a built tree a query returned the hit of a
\* triangle of the right subtree; no triangle of the left subtree is hit.
C22_Witness ==
    /\ lastCall.op = "getRayCollision"
    /\ nodes[lastCall.on].parent = NoNode
    /\ ~IsLeaf(nodes[lastCall.on])
    /\ lastCall.returned # undefined
    /\ HitsOn(nodes, LeavesOf(nodes, nodes[lastCall.on].leftChild),
              lastCall.p1, lastCall.p2) = {}
    /\ lastCall.returned
          \in HitsOn(nodes, LeavesOf(nodes, nodes[lastCall.on].rightChild),
                     lastCall.p1, lastCall.p2)

\* The answer of the query of lastCall with the end points exchanged.
ReversedAnswer ==
    getRayCollision(nodes, lastCall.on, lastCall.p2, lastCall.p1, FALSE)

\* The box test answers alike for both orders of the end points on every
\* node below the receiver of the query of lastCall.
BoxTestsAgree ==
    \A m \in SubtreeOf(nodes, lastCall.on) :
        isRayCollideAABB(nodes[m], lastCall.p1, lastCall.p2)
            <=> isRayCollideAABB(nodes[m], lastCall.p2, lastCall.p1)

\* C26 as stated: on the root of a built tree, getRayCollision(p1, p2,
\* false) returns a point exactly when getRayCollision(p2, p1, false) does,
\* for distinct p1 and p2.
C26_ReversedLineSameAnswer ==
    (/\ lastCall.op = "getRayCollision" /\ ~lastCall.onlyOnLine
     /\ lastCall.p1 # lastCall.p2
     /\ nodes[lastCall.on].parent = NoNode /\ lastCall.on # 1) =>
        (lastCall.returned # undefined <=> ReversedAnswer # undefined)

\* C26, amended: the two orders of the end points give a point or none
\* alike whenever the box test, whose near faces depend on the direction,
\* answers alike for both orders on every node of the tree.
C26_ReversedLineSameAnswerWhenBoxTestsAgree ==
    (/\ lastCall.op = "getRayCollision" /\ ~lastCall.onlyOnLine
     /\ lastCall.p1 # lastCall.p2
     /\ nodes[lastCall.on].parent = NoNode /\ lastCall.on # 1
     /\ BoxTestsAgree) =>
        (lastCall.returned # undefined <=> ReversedAnswer # undefined)

\* C26 witness: a line that starts past the triangle it aims at was cast on
\* the root of a built tree with children, the box tests agree for both
\* orders, and both orders return the same point.
C26_Witness ==
    /\ lastCall.op = "getRayCollision" /\ ~lastCall.onlyOnLine
    /\ nodes[lastCall.on].parent = NoNode /\ lastCall.on # 1
    /\ ~IsLeaf(nodes[lastCall.on])
    /\ BoxTestsAgree
    /\ lastCall.returned # undefined
    /\ ReversedAnswer = lastCall.returned
    /\ RGt(dot(subtract(lastCall.p1, lastCall.returned),
               subtract(lastCall.p2, lastCall.returned)), R(0))

\* C27: in the tree calculateTree returned, every node has no child or two,
\* each child names the node that holds it as its parent, and the returned
\* root has no parent; getRoot on a node of a returned tree returns the
\* root of that tree.
C27_TreeShapeAndRoot ==
    /\ (lastCall.op = "calculateTree" /\ ~lastCall.thrown) =>
          /\ nodes[lastCall.returned].parent = NoNode
          /\ \A m \in SubtreeOf(nodes, lastCall.returned) :
                /\ (nodes[m].leftChild = NoNode) <=> (nodes[m].rightChild = NoNode)
                /\ nodes[m].leftChild # NoNode =>
                      /\ nodes[m].leftChild # nodes[m].rightChild
                      /\ nodes[nodes[m].leftChild].parent = m
                      /\ nodes[nodes[m].rightChild].parent = m
    /\ lastCall.op = "getRoot" =>
          /\ nodes[lastCall.returned].parent = NoNode
          /\ lastCall.on \in SubtreeOf(nodes, lastCall.returned)
          /\ \A r \in 1..Len(nodes) :
                (nodes[r].parent = NoNode /\ lastCall.on \in SubtreeOf(nodes, r))
                    => lastCall.returned = r

\* C27 witness: getRoot was called on a node two levels below the root of a
\* built tree.
C27_Witness ==
    /\ lastCall.op = "getRoot"
    /\ nodes[lastCall.on].parent # NoNode
    /\ nodes[nodes[lastCall.on].parent].parent = lastCall.returned

\* The nodes below and including n in pre-order: the node, then its left
\* subtree, then its right subtree.
RECURSIVE PreOrder(_, _)
PreOrder(heap, n) ==
    IF n = NoNode THEN <<>>
    ELSE <<n>> \o PreOrder(heap, heap[n].leftChild)
              \o PreOrder(heap, heap[n].rightChild)

\* C28: on the root of a built tree of N triangles, getAllNodes returns
\* every node of the tree exactly once, in pre-order, 2N - 1 nodes in all,
\* and getAllBoundingBoxes returns the boxes of the nodes in that order.
C28_PreOrderOfAllNodes ==
    (/\ lastCall.op \in {"getAllNodes", "getAllBoundingBoxes"}
     /\ nodes[lastCall.on].parent = NoNode /\ lastCall.on # 1) =>
        /\ lastCall.op = "getAllNodes" =>
              /\ lastCall.returned = PreOrder(nodes, lastCall.on)
              /\ {lastCall.returned[i] : i \in 1..Len(lastCall.returned)}
                   = SubtreeOf(nodes, lastCall.on)
              /\ \A i, j \in 1..Len(lastCall.returned) :
                    i # j => lastCall.returned[i] # lastCall.returned[j]
              /\ Len(lastCall.returned)
                   = 2 * Len(nodes[lastCall.on].triangles) - 1
        /\ lastCall.op = "getAllBoundingBoxes" =>
              /\ Len(lastCall.returned) = Len(PreOrder(nodes, lastCall.on))
              /\ \A i \in 1..Len(lastCall.returned) :
                    lastCall.returned[i]
                        = nodes[PreOrder(nodes, lastCall.on)[i]].boundingBox

\* C28 witness: getAllNodes returned the five nodes of a built tree of
\* three triangles.
C28_Witness ==
    /\ lastCall.op = "getAllNodes"
    /\ nodes[lastCall.on].parent = NoNode /\ lastCall.on # 1
    /\ Len(nodes[lastCall.on].triangles) = 3
    /\ Len(lastCall.returned) = 5


-----------------------------------------------------------------------------
(* The build alone: calculateTree called once on a tree that holds up to   *)
(* MaxBuildInput triangles of the pool, inserted in any order.             *)

MaxBuildInput == 4

\* The orders in which the caller inserted the triangles: lists of distinct
\* indices of the pool.
InsertionOrders ==
    {order \in UNION {[1..k -> 1..Len(TrianglePool)] : k \in 1..MaxBuildInput} :
        \A i, j \in 1..Len(order) : i # j => order[i] # order[j]}

InitBuild ==
    /\ nodes \in {<<NodeAddAll(NewTree, [i \in 1..Len(order) |->
                                            TrianglePool[order[i]]])>> :
                     order \in InsertionOrders}
    /\ calls = 0
    /\ lastCall = [op |-> "none"]
    /\ NoLines /\ NoBoxes

\* calculateTree on the caller's tree, which holds a triangle.
Build ==
    /\ Len(nodes) = 1
    /\ nodes' = calculateTree(nodes, 1).heap
    /\ calls' = calls + 1
    /\ lastCall' = [op |-> "calculateTree", on |-> 1, thrown |-> FALSE,
                    returned |-> calculateTree(nodes, 1).node]
    /\ UNCHANGED <<lineVars, boxVars>>

NextBuild == Build

SpecBuild == InitBuild /\ [][NextBuild]_vars

\* The centroid coordinates, on an axis, of the triangles of a node.
CentroidsOn(node, axis) ==
    [i \in 1..Len(node.triangles) |->
        Coord(TriangleCentroid(node.triangles[i]), axis)]

\* C24: every internal node of the tree calculateTree returns, holding n
\* triangles in a box of extent d, has split them on x if d.x >= d.y and
\* d.x >= d.z, else on y if d.y >= d.z, else on z: the left child holds
\* floor(n/2) of them and the right child the others, each in the order of
\* the centroids on that axis, and no centroid of the left child lies
\* beyond one of the right child on that axis.
C24_SplitOnDominantAxis ==
    (lastCall.op = "calculateTree" /\ ~lastCall.thrown) =>
        \A m \in SubtreeOf(nodes, lastCall.returned) :
            ~IsLeaf(nodes[m]) =>
                LET n == Len(nodes[m].triangles)
                    d == subtract(nodes[m].boundingBox.max,
                                  nodes[m].boundingBox.min)
                    axis == IF RGe(d.x, d.y) /\ RGe(d.x, d.z) THEN "x"
                            ELSE IF RGe(d.y, d.z) THEN "y" ELSE "z"
                    left == nodes[nodes[m].leftChild]
                    right == nodes[nodes[m].rightChild]
                    ofLeft == CentroidsOn(left, axis)
                    ofRight == CentroidsOn(right, axis)
                IN  /\ n >= 2
                    /\ Len(left.triangles) = n \div 2
                    /\ Len(right.triangles) = n - (n \div 2)
                    /\ {left.triangles[i] : i \in 1..Len(left.triangles)}
                         \cup {right.triangles[i] : i \in 1..Len(right.triangles)}
                         = {nodes[m].triangles[i] : i \in 1..n}
                    /\ \A i, j \in 1..Len(ofLeft) :
                          i < j => RLe(ofLeft[i], ofLeft[j])
                    /\ \A i, j \in 1..Len(ofRight) :
                          i < j => RLe(ofRight[i], ofRight[j])
                    /\ \A i \in 1..Len(ofLeft), j \in 1..Len(ofRight) :
                          RLe(ofLeft[i], ofRight[j])

\* The extent of the box of a node.
ExtentOf(node) == subtract(node.boundingBox.max, node.boundingBox.min)

\* C24 witness: a tree of four triangles was built whose root splits on y
\* and a node below it on z.
C24_Witness ==
    /\ lastCall.op = "calculateTree" /\ ~lastCall.thrown
    /\ Len(nodes[lastCall.returned].triangles) = 4
    /\ SplitAxis(ExtentOf(nodes[lastCall.returned])) = "y"
    /\ \E m \in SubtreeOf(nodes, lastCall.returned) :
          /\ ~IsLeaf(nodes[m])
          /\ SplitAxis(ExtentOf(nodes[m])) = "z"

\* The number of edges on the longest path from node n down to a leaf.
RECURSIVE HeightOf(_, _)
HeightOf(heap, n) ==
    IF IsLeaf(heap[n]) THEN 0
    ELSE Bound([below \in {<<IF heap[n].leftChild = NoNode THEN 0
                              ELSE HeightOf(heap, heap[n].leftChild),
                              IF heap[n].rightChild = NoNode THEN 0
                              ELSE HeightOf(heap, heap[n].rightChild)>>} |->
             1 + (IF below[1] >= below[2] THEN below[1] ELSE below[2])])

\* The least k with 2^k >= n, for n >= 1.
RECURSIVE CeilLog2(_)
CeilLog2(n) == IF n <= 1 THEN 0 ELSE 1 + CeilLog2((n + 1) \div 2)

\* C25: calculateTree ends with a finite tree: every node that was split
\* held n >= 2 triangles and passed floor(n/2) >= 1 of them to the left and
\* n - floor(n/2) < n to the right, every node that was not split is a leaf
\* of one triangle, and the height of the returned tree is at most
\* ceil(log2 n) for the n triangles of the root.
C25_BuildTerminatesBalanced ==
    (lastCall.op = "calculateTree" /\ ~lastCall.thrown) =>
        /\ \A m \in SubtreeOf(nodes, lastCall.returned) :
              LET n == Len(nodes[m].triangles)
              IN  IF IsLeaf(nodes[m]) THEN n = 1
                  ELSE /\ nodes[m].leftChild # NoNode
                       /\ nodes[m].rightChild # NoNode
                       /\ Len(nodes[nodes[m].leftChild].triangles) = n \div 2
                       /\ n \div 2 >= 1
                       /\ Len(nodes[nodes[m].rightChild].triangles)
                            = n - (n \div 2)
                       /\ n - (n \div 2) < n
        /\ HeightOf(nodes, lastCall.returned)
             <= CeilLog2(Len(nodes[lastCall.returned].triangles))

\* C25 witness: a tree of four triangles was built, of height two.
C25_Witness ==
    /\ lastCall.op = "calculateTree" /\ ~lastCall.thrown
    /\ Len(nodes[lastCall.returned].triangles) = 4
    /\ HeightOf(nodes, lastCall.returned) = 2


-----------------------------------------------------------------------------
(* CollisionUtils.getCollisionLineWithTriangleEdges: the points where a    *)
(* line meets the edges of a triangle, ordered along the line.             *)

\* A Triangle of basicGeometries: three points.
Triangle3(p0, p1, p2) == [p0 |-> p0, p1 |-> p1, p2 |-> p2]

isCoplanar(pt, tri, eps) ==
    Bound([n \in {cross(subtract(tri.p1, tri.p0), subtract(tri.p2, tri.p0))} |->
        RLe(RAbs(dot(n, subtract(pt, tri.p0))), RMul(eps, getSize(n)))])

barycentricOnTriangle(pt, tri, eps) ==
    Bound([v0 \in {subtract(tri.p1, tri.p0)} |->
    Bound([v1 \in {subtract(tri.p2, tri.p0)} |->
    Bound([v2 \in {subtract(pt, tri.p0)} |->
        LET d00 == dot(v0, v0)
            d01 == dot(v0, v1)
            d11 == dot(v1, v1)
            d20 == dot(v2, v0)
            d21 == dot(v2, v1)
        IN  Bound([denom \in {RSub(RMul(d00, d11), RMul(d01, d01))} |->
                IF RLt(RAbs(denom), eps) THEN undefined
                ELSE
                Bound([v \in {RDiv(RSub(RMul(d11, d20), RMul(d01, d21)), denom)} |->
                Bound([w \in {RDiv(RSub(RMul(d00, d21), RMul(d01, d20)), denom)} |->
                    [u |-> RSub(RSub(R(1), v), w), v |-> v, w |-> w]])])])])])])

isPointInTriangle(pt, tri, eps) ==
    IF ~isCoplanar(pt, tri, eps) THEN FALSE
    ELSE
    Bound([bc \in {barycentricOnTriangle(pt, tri, eps)} |->
        IF bc = undefined THEN FALSE
        ELSE /\ RGe(bc.u, RNeg(eps)) /\ RGe(bc.v, RNeg(eps))
             /\ RGe(bc.w, RNeg(eps))])

\* A variant of dedupeByT that keeps every hit.
dedupeByT_KeepsAll(sorted, eps) == sorted

\* The loop of dedupeByT: out and lastT after the hits from index i on.
RECURSIVE dedupeLoop(_, _, _, _, _)
dedupeLoop(sorted, eps, i, out, lastT) ==
    IF i > Len(sorted) THEN out
    ELSE IF lastT = undefined \/ RGt(RAbs(RSub(sorted[i].t, lastT)), eps)
    THEN dedupeLoop(sorted, eps, i + 1, Append(out, sorted[i]), sorted[i].t)
    ELSE dedupeLoop(sorted, eps, i + 1, out, lastT)

dedupeByT(sorted, eps) == dedupeLoop(sorted, eps, 1, <<>>, undefined)

\* The point of a hit of getIntersection as a list of no or one point.
PointOf(hit) == IF hit.result /\ hit.pt # undefined THEN <<hit.pt>> ELSE <<>>

getCollisionLineWithTriangleEdges(line, triangle, includeEndpointInside, eps, de) ==
    Bound([pts \in {
        PointOf(getIntersection(line, Line(triangle.p0, triangle.p1), FALSE))
        \o PointOf(getIntersection(line, Line(triangle.p1, triangle.p2), FALSE))
        \o PointOf(getIntersection(line, Line(triangle.p2, triangle.p0), FALSE))
        \o (IF includeEndpointInside /\ isPointInTriangle(line.p0, triangle, eps)
            THEN <<line.p0>> ELSE <<>>)
        \o (IF includeEndpointInside /\ isPointInTriangle(line.p1, triangle, eps)
            THEN <<line.p1>> ELSE <<>>)} |->
    Bound([hits \in {StableSort([i \in 1..Len(pts) |->
                        [key |-> <<getParameterOnLine(line.p0, line.p1, pts[i])>>,
                         val |-> pts[i]]])} |->
        dedupeByT([i \in 1..Len(hits) |-> [t |-> hits[i].key[1], p |-> hits[i].val]],
                  de)])])

\* The triangles tested: a right triangle with edges of lengths 3, 4 and 5
\* in the plane z = 0, and the same vertices in another order.
EdgeTriangles ==
    {Triangle3(V3(0, 0, 0), V3(3, 0, 0), V3(0, 4, 0)),
     Triangle3(V3(0, 4, 0), V3(0, 0, 0), V3(3, 0, 0))}

\* The lines tested start in, on and off the triangle, in and off its
\* plane, and run along the axes, along a diagonal through a vertex and
\* nowhere (a line of no length).
EdgeLineStarts ==
    {V3(-1, 1, 0), V3(1, 1, 0), V3(0, 0, 0), V3(-3, -4, 0), V3(5, 5, 0),
     V3(1, 1, -1)}

EdgeLineDirections ==
    {V3(3, 0, 0), V3(0, 4, 0), V3(3, 4, 0), V3(0, 0, 1), V3(0, 0, 0)}

EdgeLines ==
    {Line(a, add(a, scale(d, R(k)))) :
        a \in EdgeLineStarts, d \in EdgeLineDirections, k \in 1..MaxLineLength}

\* options.dedupeEpsilon: the default and a coarse one.
DedupeTolerances == {TOLERANCE_LINE_EVALUATION, Frac(1, 2)}

InitEdges ==
    /\ li0 \in EdgeLines
    /\ li1 = undefined /\ fromExtended = FALSE /\ intersection = undefined
    /\ NoTree /\ NoBoxes

GetCollisionLineWithTriangleEdges(triangle, includeEndpointInside, de) ==
    /\ lastCall.op = "none"
    /\ lastCall' = [op |-> "getCollisionLineWithTriangleEdges",
                    triangle |-> triangle,
                    includeEndpointInside |-> includeEndpointInside,
                    dedupeEpsilon |-> de,
                    returned |-> getCollisionLineWithTriangleEdges(
                                    li0, triangle, includeEndpointInside,
                                    TOLERANCE_LINE_EVALUATION, de)]
    /\ UNCHANGED <<nodes, calls, lineVars, boxVars>>

NextEdges ==
    \E triangle \in EdgeTriangles, includeEndpointInside \in BOOLEAN,
       de \in DedupeTolerances :
        GetCollisionLineWithTriangleEdges(triangle, includeEndpointInside, de)

SpecEdges == InitEdges /\ [][NextEdges]_vars

\* C29: the hits getCollisionLineWithTriangleEdges returns are in ascending
\* order of t, the t of each is getParameterOnLine(line.p0, line.p1, p) of
\* its point, and no two of them have parameters that differ by less than
\* the dedupe tolerance.
C29_HitsSortedAndDeduped ==
    lastCall.op = "getCollisionLineWithTriangleEdges" =>
        LET hits == lastCall.returned
        IN  /\ \A i, j \in 1..Len(hits) : i < j => RLe(hits[i].t, hits[j].t)
            /\ \A i \in 1..Len(hits) :
                  hits[i].t = getParameterOnLine(li0.p0, li0.p1, hits[i].p)
            /\ \A i, j \in 1..Len(hits) :
                  i # j => ~RLt(RAbs(RSub(hits[i].t, hits[j].t)),
                                lastCall.dedupeEpsilon)

\* C29 witness: the line met two edges in one vertex of the triangle and
\* the third edge elsewhere; two hits were returned.
C29_Witness ==
    /\ lastCall.op = "getCollisionLineWithTriangleEdges"
    /\ ~lastCall.includeEndpointInside
    /\ Len(lastCall.returned) = 2
    /\ \E e1, e2 \in {<<"p0", "p1">>, <<"p1", "p2">>, <<"p2", "p0">>} :
          /\ e1 # e2
          /\ LET tri == lastCall.triangle
                 h1 == getIntersection(li0, Line(tri[e1[1]], tri[e1[2]]), FALSE)
                 h2 == getIntersection(li0, Line(tri[e2[1]], tri[e2[2]]), FALSE)
             IN  h1.result /\ h2.result /\ h1.pt = h2.pt
    /\ RLt(lastCall.returned[1].t, lastCall.returned[2].t)


-----------------------------------------------------------------------------
(* The box tests with the boxes exchanged.                                 *)

\* The answer of the call of this state with the two boxes exchanged.
SwappedCollision ==
    IF Is3d(boxA) THEN hasBoundingBoxCollision3d(boxB, boxA, includeContating)
    ELSE hasBoundingBoxCollision2d(boxB, boxA, includeContating)

\* C30: hasBoundingBoxCollision2d(A, B, f) and hasBoundingBoxCollision2d(B,
\* A, f) return the same result and the same error flag, and so do
\* hasBoundingBoxCollision3d(A, B, f) and hasBoundingBoxCollision3d(B, A, f).
C30_SwappedBoxesSameAnswer ==
    collision # undefined =>
        /\ SwappedCollision.result = collision.result
        /\ SwappedCollision.hasError = collision.hasError

\* C30 witness: two valid 3D boxes of different axes, one far from the
\* other, were tested and found apart.
C30_Witness ==
    /\ collision # undefined
    /\ Is3d(boxA)
    /\ boxA.vAxis # boxB.vAxis
    /\ ~collision.hasError
    /\ ~collision.result


=============================================================================
